---- MODULE Spec2Model ----
(***************************************************************************)
(* AgriMarket: the AI farming-plan pipeline.                               *)
(*                                                                         *)
(*   - generateFarmingPlan  (src/src/services/aiService.js): the request   *)
(*     client with its model-fallback loop;                                *)
(*   - normalizeStructuredPlan / buildFallbackPlan (same file) and         *)
(*     parseStructuredPlan (src/src/screens/farmer/PlantScreen.js): the    *)
(*     response normalizer, computed on the text itself;                   *)
(*   - the walkthrough handlers of PlantScreen.                            *)
(*                                                                         *)
(* Text is a TLA+ string, read one character at a time.  The alphabet of   *)
(* the texts the model draws is printable ASCII plus "\n", "\t" and "\r";  *)
(* "\t" and "\r" stand for every character outside \x20-\x7E.  A TLA+      *)
(* string cannot hold a backtick: the texts write "~" for it (BackTick).   *)
(***************************************************************************)
EXTENDS Integers, Sequences, FiniteSets, TLC

VARIABLES
    \* ---- generateFarmingPlan (one call) ----
    apiKey,        \* CLAUDE_API_KEY: "" when the credential is missing
    envModel,      \* process.env.EXPO_PUBLIC_ANTHROPIC_MODEL ("" when unset)
    pc,            \* position of the call
    modelsToTry,   \* the de-duplicated candidate list
    modelIdx,      \* position of the for..of loop in modelsToTry (1-based)
    requests,      \* the models fetch() was called with, in order
    inFlight,      \* number of fetch() calls not yet settled
    responses,     \* what fetch() settled with, one entry per request
    lastError,     \* let lastError
    outcome,       \* how the promise settled: a result or an error
    \* ---- the normalizer, applied to one text ----
    context,       \* { crop, weatherSummary, farmAreaHectares (in square metres) }
    nPc,           \* position of the normalizer run
    rawText,       \* the text handed to the normalizer
    normalized,    \* what normalizeStructuredPlan returned (or that it raised)
    screenPlan,    \* what parseStructuredPlan returned for the same text
    renormalized,  \* what normalizing the serialized plan returned
    \* ---- the walkthrough of PlantScreen ----
    wPc,           \* position of the walkthrough run
    sections,      \* planSections, as the number of actionItems of each section
    completedActions,  \* the keys "s-a" set to true
    currentTaskIdx,    \* the cursor state (0-based, as in the code)
    calls,         \* handler calls made so far
    timers,        \* pending setTimeout callbacks of toggleCurrentTask, oldest first
    marked,        \* the keys the user set since aiPlan was last assigned
    lastOp,        \* the handler or timer that ran last, with the render it ran in
    \* ---- the plan wizard of PlantScreen ----
    wizardStep,    \* step: 0 map, 1 crop, 2 plan, 3 review
    farmBoundary,  \* farmBoundary.length
    selectedCrop,  \* the name of selectedCrop, "" for null
    aiPlan,        \* the plan text, '' when there is none
    weather,       \* what setWeather was last given, "none" for null
    loading,
    saving,
    isAnalyzingPlot,
    openAlerts,    \* the Alert.alert dialogs not yet answered, oldest first
    planCalls,     \* the generatePlan calls that have not settled
    started,       \* generatePlan calls made so far
    wizLast,       \* the handler or completion that ran last, with the state before it
    \* ---- marketService: one listing and one group sale ----
    listing,       \* the status field of the listing document
    listed,        \* the users whose screen shows the listing
    buyCalls,      \* the buyListing calls that have not returned
    orders,        \* the documents of the orders collection
    sale,          \* the unit_sales document
    joinCalls,     \* the joinUnitSale calls that have not returned
    joined         \* the contributions made: createUnitSale and joinUnitSale calls that returned

clientVars == <<apiKey, envModel, pc, modelsToTry, modelIdx, requests, inFlight,
                responses, lastError, outcome>>
normVars == <<nPc, rawText, normalized, screenPlan, renormalized>>
walkVars == <<wPc, sections, completedActions, currentTaskIdx, calls,
              timers, marked, lastOp>>
wizVars == <<wizardStep, farmBoundary, selectedCrop, aiPlan, weather, loading, saving,
             isAnalyzingPlot, openAlerts, planCalls, started, wizLast>>
mktVars == <<listing, listed, buyCalls, orders, sale, joinCalls, joined>>
vars == <<context, clientVars, normVars, walkVars, wizVars, mktVars>>

(***************************************************************************)
(* Characters and strings.  An operator that walks a whole text divides    *)
(* it in halves (ConcatMap) or scans a set of positions, so that the depth *)
(* of evaluation does not grow with the length of the text.                *)
(***************************************************************************)
Ch(t, i) == SubSeq(t, i, i)
At(t, i) == IF i >= 1 /\ i <= Len(t) THEN Ch(t, i) ELSE ""

Min(S) == CHOOSE m \in S : \A k \in S : m <= k
Max(S) == CHOOSE m \in S : \A k \in S : m >= k
MinOrZero(S) == IF S = {} THEN 0 ELSE Min(S)
MaxOrZero(S) == IF S = {} THEN 0 ELSE Max(S)

BackTick == "~"
Fence == BackTick \o BackTick \o BackTick
FenceJson == Fence \o "json"

UpperLetters == "ABCDEFGHIJKLMNOPQRSTUVWXYZ"
LowerLetters == "abcdefghijklmnopqrstuvwxyz"
Digits == "0123456789"

\* 1-based position of the first character c of t, 0 when absent
IndexIn(t, c) == MinOrZero({j \in 1..Len(t) : Ch(t, j) = c})

RECURSIVE ConcatMap(_, _, _, _)
\* P(t, lo) \o P(t, lo + 1) \o ... \o P(t, hi)
ConcatMap(P(_, _), t, lo, hi) ==
    IF lo > hi THEN ""
    ELSE IF lo = hi THEN P(t, lo)
    ELSE ConcatMap(P, t, lo, (lo + hi) \div 2)
         \o ConcatMap(P, t, ((lo + hi) \div 2) + 1, hi)

\* c, or the letter of the other case at position k of to
PickChar(c, to, k) == IF k = 0 THEN c ELSE Ch(to, k)

LowerChar(c) == PickChar(c, LowerLetters, IndexIn(UpperLetters, c))

UpperChar(c) == PickChar(c, UpperLetters, IndexIn(LowerLetters, c))

LowerAt(t, i) == LowerChar(Ch(t, i))
toLowerCase(t) == ConcatMap(LowerAt, t, 1, Len(t))

IsDigit(c) == c # "" /\ IndexIn(Digits, c) > 0
DigitVal(c) == IndexIn(Digits, c) - 1

\* JavaScript's \s and the whitespace trim() strips, within the alphabet
IsSpace(c) == c \in {" ", "\n", "\t", "\r"}
\* [^\x20-\x7E\n] within the alphabet
IsNonPrintable(c) == c \in {"\t", "\r"}

RECURSIVE SkipWs(_, _)
\* the first position at or after i that holds no whitespace
SkipWs(t, i) == IF IsSpace(At(t, i)) THEN SkipWs(t, i + 1) ELSE i

RECURSIVE SkipWsBack(_, _)
\* the last position at or before i that holds no whitespace (0 when none)
SkipWsBack(t, i) == IF IsSpace(At(t, i)) THEN SkipWsBack(t, i - 1) ELSE i

TrimStart(t) == SubSeq(t, SkipWs(t, 1), Len(t))
TrimEnd(t) == SubSeq(t, 1, SkipWsBack(t, Len(t)))
trim(t) == TrimEnd(TrimStart(t))

StartsWithAt(t, pat, i) ==
    /\ i >= 1
    /\ i + Len(pat) - 1 <= Len(t)
    /\ SubSeq(t, i, i + Len(pat) - 1) = pat

\* String.prototype.indexOf(pat, from), 1-based; 0 when absent
indexOf(t, pat, i) ==
    MinOrZero({j \in i..(Len(t) - Len(pat) + 1) : StartsWithAt(t, pat, j)})

\* String.prototype.lastIndexOf(pat), 1-based; 0 when absent
lastIndexOf(t, pat) ==
    MaxOrZero({j \in 1..(Len(t) - Len(pat) + 1) : StartsWithAt(t, pat, j)})

Contains(t, pat) == indexOf(t, pat, 1) > 0

\* replace(/```json/gi, ''): the pattern cannot overlap itself, so every
\* occurrence is a match
InFenceJson(t, i) ==
    \E b \in (i - Len(FenceJson) + 1)..i :
        /\ b >= 1
        /\ b + Len(FenceJson) - 1 <= Len(t)
        /\ Ch(t, b) = BackTick
        /\ toLowerCase(SubSeq(t, b, b + Len(FenceJson) - 1)) = FenceJson
DropFenceJsonAt(t, i) == IF InFenceJson(t, i) THEN "" ELSE Ch(t, i)
RemoveFenceJson(t) == ConcatMap(DropFenceJsonAt, t, 1, Len(t))

RECURSIVE TickRunStart(_, _)
TickRunStart(t, i) == IF At(t, i - 1) = BackTick THEN TickRunStart(t, i - 1) ELSE i
RECURSIVE TickRunEnd(_, _)
TickRunEnd(t, i) == IF At(t, i + 1) = BackTick THEN TickRunEnd(t, i + 1) ELSE i

\* a run of backticks from a to b: the one at i goes when a match takes it
DropInRun(i, a, b) == IF i - a < 3 * ((b - a + 1) \div 3) THEN "" ELSE BackTick

\* replace(/```/g, ''): matches are taken left to right, so a run of k
\* backticks loses its first 3 * (k div 3)
DropFenceAt(t, i) ==
    IF Ch(t, i) # BackTick THEN Ch(t, i)
    ELSE DropInRun(i, TickRunStart(t, i), TickRunEnd(t, i))
RemoveFence(t) == ConcatMap(DropFenceAt, t, 1, Len(t))

\* replace(/`+/g, '')
DropTickAt(t, i) == IF Ch(t, i) = BackTick THEN "" ELSE Ch(t, i)
RemoveBackTicks(t) == ConcatMap(DropTickAt, t, 1, Len(t))

\* replace(/[^\x20-\x7E\n]/g, ' ')
BlankAt(t, i) == IF IsNonPrintable(Ch(t, i)) THEN " " ELSE Ch(t, i)
BlankNonPrintable(t) == ConcatMap(BlankAt, t, 1, Len(t))

\* replace(/\s+/g, ' ')
CollapseAt(t, i) ==
    IF ~IsSpace(Ch(t, i)) THEN Ch(t, i)
    ELSE IF IsSpace(At(t, i - 1)) THEN "" ELSE " "
CollapseSpace(t) == ConcatMap(CollapseAt, t, 1, Len(t))

\* the replace chain and trim of cleanText, on the string String(value)
cleanString(t) ==
    trim(CollapseSpace(BlankNonPrintable(
        RemoveBackTicks(RemoveFence(RemoveFenceJson(t))))))

(***************************************************************************)
(* JavaScript values, as JSON.parse builds them                            *)
(***************************************************************************)
Undefined == [t |-> "undefined"]
Null == [t |-> "null"]
Bool(b) == [t |-> "boolean", b |-> b]
Num(n) == [t |-> "number", n |-> n]
Str(s) == [t |-> "string", s |-> s]
Arr(a) == [t |-> "array", a |-> a]
\* an object is its own properties in insertion order, each [k, v]
Obj(o) == [t |-> "object", o |-> o]

\* !value
Falsy(v) ==
    \/ v.t \in {"undefined", "null"}
    \/ v.t = "boolean" /\ ~v.b
    \/ v.t = "number" /\ v.n = 0
    \/ v.t = "string" /\ v.s = ""

RECURSIVE GetFrom(_, _, _)
\* the value of own property k: the last pair that names it
GetFrom(o, k, i) ==
    IF i < 1 THEN Undefined
    ELSE IF o[i].k = k THEN o[i].v
    ELSE GetFrom(o, k, i - 1)

\* value?.k for the property names the code reads; a string, number, boolean
\* or array has none of them
Get(v, k) == IF v.t = "object" THEN GetFrom(v.o, k, Len(v.o)) ELSE Undefined

isArray(v) == v.t = "array"

\* a || b, b evaluated only when a is falsy
FirstTruthy(a, b) == IF ~Falsy(a) THEN a ELSE b

(***************************************************************************)
(* JSON.parse.  Numbers are integer literals; the escapes of a string are  *)
(* \" \\ \/ \n \t \r (the alphabet holds no other control character).      *)
(***************************************************************************)
ParseFail == [ok |-> FALSE, v |-> Undefined, i |-> 0]
ParseOk(v, i) == [ok |-> TRUE, v |-> v, i |-> i]

RECURSIVE BackslashRun(_, _)
\* the number of consecutive backslashes just before position i
BackslashRun(t, i) == IF At(t, i - 1) = "\\" THEN 1 + BackslashRun(t, i - 1) ELSE 0

ScanWindow == 8

\* position j holds a quote that no backslash escapes
IsClosingQuote(t, j, lo) ==
    /\ At(t, j) = "\""
    /\ BackslashRun(SubSeq(t, lo, j - 1), j - lo + 1) % 2 = 0

RECURSIVE ClosingQuote(_, _, _)
\* the first quote at or after i that no backslash escapes (lo: where the
\* literal's content starts), 0 when the text ends first
ClosingQuote(t, i, lo) ==
    IF i > Len(t) THEN 0
    ELSE IF \E j \in i..(i + ScanWindow - 1) : IsClosingQuote(t, j, lo)
    THEN Min({j \in i..(i + ScanWindow - 1) : IsClosingQuote(t, j, lo)})
    ELSE ClosingQuote(t, i + ScanWindow, lo)

\* in the content of a literal: position i starts an escape / is escaped
StartsEscape(raw, i) == Ch(raw, i) = "\\" /\ BackslashRun(raw, i) % 2 = 0
IsEscaped(raw, i) == BackslashRun(raw, i) % 2 = 1

Unescape(e) ==
    CASE e = "n" -> "\n"
      [] e = "t" -> "\t"
      [] e = "r" -> "\r"
      [] OTHER -> e

UnescapeAt(raw, i) ==
    IF IsEscaped(raw, i) THEN Unescape(Ch(raw, i))
    ELSE IF StartsEscape(raw, i) THEN ""
    ELSE Ch(raw, i)

\* the literal whose content is raw and whose closing quote is at close
StringContent(raw, close) ==
    IF \E k \in 1..Len(raw) :
           \/ Ch(raw, k) \in {"\n", "\t", "\r"}
           \/ /\ IsEscaped(raw, k)
              /\ Ch(raw, k) \notin {"\"", "\\", "/", "n", "t", "r"}
    THEN ParseFail
    ELSE ParseOk(Str(ConcatMap(UnescapeAt, raw, 1, Len(raw))), close + 1)

StringUpTo(t, i, close) ==
    IF close = 0 THEN ParseFail ELSE StringContent(SubSeq(t, i, close - 1), close)

\* i: just after the opening quote
ParseString(t, i) == StringUpTo(t, i, ClosingQuote(t, i, i))

RECURSIVE ParseDigits(_, _, _)
ParseDigits(t, i, acc) ==
    IF IsDigit(At(t, i))
    THEN ParseDigits(t, i + 1, 10 * acc + DigitVal(At(t, i)))
    ELSE [n |-> acc, i |-> i]

\* the digits start at j and were read as d
NumberFrom(t, neg, j, d) ==
    IF ~IsDigit(At(t, j)) THEN ParseFail
    ELSE IF At(t, j) = "0" /\ d.i > j + 1 THEN ParseFail
    ELSE IF At(t, d.i) \in {".", "e", "E"} THEN ParseFail
    ELSE ParseOk(Num(IF neg THEN 0 - d.n ELSE d.n), d.i)

ParseNumber(t, i) ==
    IF At(t, i) = "-" THEN NumberFrom(t, TRUE, i + 1, ParseDigits(t, i + 1, 0))
    ELSE NumberFrom(t, FALSE, i, ParseDigits(t, i, 0))

ParseLiteral(t, i) ==
    IF StartsWithAt(t, "true", i) THEN ParseOk(Bool(TRUE), i + 4)
    ELSE IF StartsWithAt(t, "false", i) THEN ParseOk(Bool(FALSE), i + 5)
    ELSE IF StartsWithAt(t, "null", i) THEN ParseOk(Null, i + 4)
    ELSE ParseFail

RECURSIVE ParseValue(_, _)
RECURSIVE ParseElements(_, _, _, _)
RECURSIVE ParseMembers(_, _, _, _)

\* c: the first character of the value
ValueStarting(t, i, c) ==
    IF c = "{" THEN ParseMembers(t, SkipWs(t, i + 1), <<>>, TRUE)
    ELSE IF c = "[" THEN ParseElements(t, SkipWs(t, i + 1), <<>>, TRUE)
    ELSE IF c = "\"" THEN ParseString(t, i + 1)
    ELSE IF c = "-" \/ IsDigit(c) THEN ParseNumber(t, i)
    ELSE ParseLiteral(t, i)

\* i: at the first character of the value
ParseValue(t, i) == ValueStarting(t, i, At(t, i))

\* the element r was parsed; j: the next character that is no whitespace
AfterElement(t, acc, r, j) ==
    IF ~r.ok THEN ParseFail
    ELSE IF At(t, j) = ","
         THEN ParseElements(t, SkipWs(t, j + 1), Append(acc, r.v), FALSE)
    ELSE IF At(t, j) = "]" THEN ParseOk(Arr(Append(acc, r.v)), j + 1)
    ELSE ParseFail

Element(t, acc, r) == AfterElement(t, acc, r, SkipWs(t, r.i))

\* i: at the next element, or at "]" of an empty array when first
ParseElements(t, i, acc, first) ==
    IF first /\ At(t, i) = "]" THEN ParseOk(Arr(acc), i + 1)
    ELSE Element(t, acc, ParseValue(t, i))

\* the member k: r was parsed; j: the next character that is no whitespace
AfterMember(t, acc, k, r, j) ==
    IF ~r.ok THEN ParseFail
    ELSE IF At(t, j) = ","
         THEN ParseMembers(t, SkipWs(t, j + 1),
                           Append(acc, [k |-> k.v.s, v |-> r.v]), FALSE)
    ELSE IF At(t, j) = "}"
         THEN ParseOk(Obj(Append(acc, [k |-> k.v.s, v |-> r.v])), j + 1)
    ELSE ParseFail

Member(t, acc, k, r) == AfterMember(t, acc, k, r, SkipWs(t, r.i))

\* the key k was parsed; c: where the colon must be
MemberColon(t, acc, k, c) ==
    IF At(t, c) # ":" THEN ParseFail
    ELSE Member(t, acc, k, ParseValue(t, SkipWs(t, c + 1)))

MemberKey(t, acc, k) ==
    IF ~k.ok THEN ParseFail ELSE MemberColon(t, acc, k, SkipWs(t, k.i))

\* i: at the next key, or at "}" of an empty object when first
ParseMembers(t, i, acc, first) ==
    IF first /\ At(t, i) = "}" THEN ParseOk(Obj(acc), i + 1)
    ELSE IF At(t, i) # "\"" THEN ParseFail
    ELSE MemberKey(t, acc, ParseString(t, i + 1))

\* the value r must be followed by whitespace only
WholeText(t, r) == IF r.ok /\ SkipWs(t, r.i) > Len(t) THEN r ELSE ParseFail

\* JSON.parse(text): the value, or that it threw
JSONparse(t) == WholeText(t, ParseValue(t, SkipWs(t, 1)))

ValueOrNull(r) == IF r.ok THEN r.v ELSE Null

\* aiService.js safeJsonParse: null when JSON.parse throws
safeJsonParse(t) == ValueOrNull(JSONparse(t))

(***************************************************************************)
(* String(value) and Number(value) on the values JSON.parse builds.  A     *)
(* parsed object never holds a callable, so an object with an own          *)
(* "toString" property has no usable conversion: OrdinaryToPrimitive finds *)
(* toString not callable, valueOf (its own, or Object.prototype's, which   *)
(* returns the object) gives no primitive, and a TypeError is thrown.      *)
(***************************************************************************)
RECURSIVE HasOwn(_, _, _)
HasOwn(o, k, i) ==
    IF i > Len(o) THEN FALSE
    ELSE o[i].k = k \/ HasOwn(o, k, i + 1)

RECURSIVE ToStringThrows(_)
ToStringThrows(v) ==
    \/ v.t = "object" /\ HasOwn(v.o, "toString", 1)
    \/ v.t = "array" /\ \E i \in 1..Len(v.a) : ToStringThrows(v.a[i])

RECURSIVE NatToStr(_)
NatToStr(n) ==
    IF n < 10 THEN Ch(Digits, n + 1)
    ELSE NatToStr(n \div 10) \o Ch(Digits, (n % 10) + 1)

NumToStr(n) == IF n < 0 THEN "-" \o NatToStr(0 - n) ELSE NatToStr(n)

RECURSIVE String(_)
RECURSIVE Join(_, _)
\* Array.prototype.join(","): null and undefined elements give ""
Join(a, i) ==
    IF i > Len(a) THEN ""
    ELSE (IF i > 1 THEN "," ELSE "")
         \o (IF a[i].t \in {"undefined", "null"} THEN "" ELSE String(a[i]))
         \o Join(a, i + 1)

\* String(v), for v with ~ToStringThrows(v)
String(v) ==
    CASE v.t = "undefined" -> "undefined"
      [] v.t = "null" -> "null"
      [] v.t = "boolean" -> (IF v.b THEN "true" ELSE "false")
      [] v.t = "number" -> NumToStr(v.n)
      [] v.t = "string" -> v.s
      [] v.t = "array" -> Join(v.a, 1)
      [] v.t = "object" -> "[object Object]"

NaN == [nan |-> TRUE, n |-> 0]
Finite(n) == [nan |-> FALSE, n |-> n]

RECURSIVE AllDigits(_, _)
AllDigits(t, i) == i > Len(t) \/ (IsDigit(Ch(t, i)) /\ AllDigits(t, i + 1))

SignedNumber(neg, d) == Finite(IF neg THEN 0 - d.n ELSE d.n)

DigitsToNumber(neg, body) ==
    IF body = "" \/ ~AllDigits(body, 1) THEN NaN
    ELSE SignedNumber(neg, ParseDigits(body, 1, 0))

TrimmedToNumber(u) ==
    IF u = "" THEN Finite(0)
    ELSE IF At(u, 1) \in {"-", "+"}
         THEN DigitsToNumber(At(u, 1) = "-", SubSeq(u, 2, Len(u)))
    ELSE DigitsToNumber(FALSE, u)

\* StringToNumber on integer literals: "" is 0, anything else NaN
StringToNumber(t) == TrimmedToNumber(trim(t))

NumberThrows(v) == ToStringThrows(v)

\* Number(v), for v with ~NumberThrows(v)
Number(v) ==
    CASE v.t = "undefined" -> NaN
      [] v.t = "null" -> Finite(0)
      [] v.t = "boolean" -> Finite(IF v.b THEN 1 ELSE 0)
      [] v.t = "number" -> Finite(v.n)
      [] v.t = "string" -> StringToNumber(v.s)
      [] v.t = "array" -> StringToNumber(Join(v.a, 1))
      [] v.t = "object" -> NaN

\* Number.isFinite(Number(v))
isFiniteNumber(v) == ~Number(v).nan

(***************************************************************************)
(* aiService.js: cleanText, extractJsonObject                              *)
(***************************************************************************)
\* cleanText(value) throws: String(value) is reached and throws
cleanTextThrows(v) == ~Falsy(v) /\ ToStringThrows(v)

cleanText(v) == IF Falsy(v) THEN "" ELSE cleanString(String(v))

FenceClosed(t, start, close) ==
    IF close = 0 THEN "" ELSE TrimEnd(SubSeq(t, start, close - 1))

FenceInterior(t, start) == FenceClosed(t, start, indexOf(t, Fence, start))

FenceOpened(t, open) ==
    IF open = 0 THEN "" ELSE FenceInterior(t, SkipWs(t, open + Len(FenceJson)))

\* text.match(/```json\s*([\s\S]*?)\s*```/i)?.[1]: "" when there is no match
FencedInterior(t) == FenceOpened(t, indexOf(toLowerCase(t), FenceJson, 1))

DropCommaWhen(t, i, closes) ==
    IF Ch(t, i) = "," /\ closes THEN ""
    ELSE IF IsSpace(Ch(t, i)) /\ closes /\ At(t, SkipWsBack(t, i)) = "," THEN ""
    ELSE Ch(t, i)

\* candidate.replace(/,\s*([}\]])/g, '$1'): a comma, and the whitespace after
\* it, go when the next character that is no whitespace closes a bracket
DropTrailingCommaAt(t, i) == DropCommaWhen(t, i, At(t, SkipWs(t, i + 1)) \in {"}", "]"})
StripTrailingCommas(t) == ConcatMap(DropTrailingCommaAt, t, 1, Len(t))

\* the three attempts of extractJsonObject, each the parsed value or null
DirectAttempt(t) == safeJsonParse(trim(t))

ParseInner(inner) == IF inner = "" THEN Null ELSE safeJsonParse(trim(inner))

FencedAttempt(t) == ParseInner(FencedInterior(trim(t)))

\* strict || safeJsonParse(relaxed)
StrictOrRelaxed(strict, candidate) ==
    IF ~Falsy(strict) THEN strict
    ELSE safeJsonParse(StripTrailingCommas(candidate))

ParseCandidate(candidate) == StrictOrRelaxed(safeJsonParse(candidate), candidate)

BetweenBraces(trimmed, firstBrace, lastBrace) ==
    IF firstBrace >= 1 /\ lastBrace > firstBrace
    THEN ParseCandidate(SubSeq(trimmed, firstBrace, lastBrace))
    ELSE Null

BraceAttemptOn(trimmed) ==
    BetweenBraces(trimmed, indexOf(trimmed, "{", 1), lastIndexOf(trimmed, "}"))

BraceAttempt(t) == BraceAttemptOn(trim(t))

\* the attempts taken in the opposite order
extractBracesFirst(t) ==
    IF t = "" THEN Null
    ELSE FirstTruthy(BraceAttempt(t),
                     FirstTruthy(FencedAttempt(t), FirstTruthy(DirectAttempt(t), Null)))

extractJsonObject(t) ==
    IF t = "" THEN Null
    ELSE FirstTruthy(DirectAttempt(t),
                     FirstTruthy(FencedAttempt(t), FirstTruthy(BraceAttempt(t), Null)))

(***************************************************************************)
(* aiService.js: buildFallbackPlan                                         *)
(***************************************************************************)
\* rawText.replace(/\r/g, '')
DropCrAt(t, i) == IF Ch(t, i) = "\r" THEN "" ELSE Ch(t, i)
RemoveCr(t) == ConcatMap(DropCrAt, t, 1, Len(t))

RECURSIVE SplitAt(_, _, _, _)
\* the pieces from i on, the next separator being at j (0: none)
SplitAt(t, sep, i, j) ==
    IF j = 0 THEN <<SubSeq(t, i, Len(t))>>
    ELSE <<SubSeq(t, i, j - 1)>> \o SplitAt(t, sep, j + 1, indexOf(t, sep, j + 1))

\* t.split(sep) for a one-character sep; i: where the current piece starts
split(t, sep, i) == SplitAt(t, sep, i, indexOf(t, sep, i))

\* line.replace(/^[-*]\s+/, '')
StripBullet(l) ==
    IF At(l, 1) \in {"-", "*"} /\ IsSpace(At(l, 2))
    THEN SubSeq(l, SkipWs(l, 2), Len(l))
    ELSE l

\* d: the position after the leading digits
StripNumberingAfter(l, d) ==
    IF d > 1 /\ At(l, d) \in {")", "."} /\ IsSpace(At(l, d + 1))
    THEN SubSeq(l, SkipWs(l, d + 1), Len(l))
    ELSE l

\* line.replace(/^\d+[\).]\s+/, '')
StripNumbering(l) == StripNumberingAfter(l, ParseDigits(l, 1, 0).i)

\* /[{}[\]"]/.test(line)
HasJsonNoise(l) == \E i \in 1..Len(l) : Ch(l, i) \in {"{", "}", "[", "]", "\""}

MinTaskLength == 12
MaxExtractedTasks == 10
MinExtractedTasks == 4
MaxFallbackSteps == 8

slice(q, n) == SubSeq(q, 1, IF Len(q) < n THEN Len(q) ELSE n)

NonEmpty(l) == l # ""
IsTaskLine(l) == Len(l) >= MinTaskLength /\ ~HasJsonNoise(l)

\* .map((line) => cleanText(line)).filter(Boolean)
CleanedLines(lines) ==
    SelectSeq([i \in 1..Len(lines) |-> cleanString(lines[i])], NonEmpty)

\* .map((line) => line.replace(bullet).replace(numbering).trim())
StrippedLines(cleaned) ==
    [i \in 1..Len(cleaned) |-> trim(StripNumbering(StripBullet(cleaned[i])))]

extractedTasks(text) ==
    slice(SelectSeq(StrippedLines(CleanedLines(split(RemoveCr(text), "\n", 1))),
                    IsTaskLine),
          MaxExtractedTasks)

defaultTasks(crop) ==
    << "Prepare soil beds for " \o crop \o " and remove weeds before planting.",
       "Mark row spacing and planting depth suitable for " \o crop \o ".",
       "Plant high quality seeds or stems at uniform spacing.",
       "Set a weekly watering schedule based on local rainfall.",
       "Apply fertilizer in split doses to reduce nutrient loss.",
       "Scout for pests and disease signs at least twice per week.",
       "Adjust irrigation and feeding around flowering stage.",
       "Harvest at proper maturity and sort produce by quality." >>

phaseOrder == <<"soil", "planting", "water", "fertilizer", "protection", "harvest">>

Capitalize(t) == UpperChar(At(t, 1)) \o SubSeq(t, 2, Len(t))

\* h hundredths as a decimal with two places
Hundredths(h) ==
    NatToStr(h \div 100) \o "." \o NatToStr((h % 100) \div 10) \o NatToStr(h % 10)

\* farmAreaHectares.toFixed(2), the area given in square metres
toFixed2(m2) == Hundredths((m2 + 50) \div 100)

YieldFloorKg == 150
YieldKgPerHectare == 3500
SquareMetresPerHectare == 10000

\* Math.max(150, Math.round(farmAreaHectares * 3500))
defaultYield(m2) ==
    Max({YieldFloorKg,
         (2 * YieldKgPerHectare * m2 + SquareMetresPerHectare)
             \div (2 * SquareMetresPerHectare)})

fallbackStepIn(phase, task, idx, crop) ==
    [ title |-> Capitalize(phase) \o " Step",
      phase |-> phase,
      start_day |-> idx * 7,
      end_day |-> idx * 7 + 6,
      priority |-> IF idx < 2 THEN "high" ELSE IF idx < 5 THEN "medium" ELSE "low",
      reason |-> "This action improves " \o crop \o " output consistency on your farm.",
      actions |-> << [ task |-> task,
                       why |-> "Helps protect yield and crop quality for " \o crop \o ".",
                       when |-> IF idx = 0 THEN "Start immediately"
                                ELSE "Week " \o NatToStr(idx + 1),
                       warning |-> "" ] >> ]

fallbackStep(task, idx, crop) ==
    fallbackStepIn(phaseOrder[(idx % Len(phaseOrder)) + 1], task, idx, crop)

DefaultHarvestDays == 90

\* the extracted lines taken however few they are
fallbackTasksAsExtracted(extracted, crop) == extracted

\* extractedTasks.length >= 4 ? extractedTasks : defaultTasks
fallbackTasks(extracted, crop) ==
    IF Len(extracted) >= MinExtractedTasks THEN extracted ELSE defaultTasks(crop)

\* tasks.slice(0, 8).map((task, idx) => ...)
fallbackSteps(used, crop) ==
    [i \in 1..Len(used) |-> fallbackStep(used[i], i - 1, crop)]

\* ws: weatherSummary.toLowerCase()
fallbackRisk(ws) ==
    IF \/ Contains(ws, "storm") \/ Contains(ws, "heavy rain")
       \/ Contains(ws, "heat") \/ Contains(ws, "dry")
    THEN "medium" ELSE "low"

buildFallbackPlan(text, ctx) ==
    [ summary |->
        [ objective |-> "Optimize " \o ctx.crop \o " production on "
                        \o toFixed2(ctx.farmAreaM2)
                        \o " ha using weather-aware scheduling.",
          estimated_harvest_days |-> DefaultHarvestDays,
          expected_yield_kg |-> defaultYield(ctx.farmAreaM2),
          risk_level |-> fallbackRisk(toLowerCase(ctx.weatherSummary)),
          key_decision |-> "Prioritize timing and water management for "
                           \o ctx.crop \o "." ],
      alerts |-> << [ title |-> "Weather Watch",
                      severity |-> "info",
                      message |-> cleanString(
                          IF ctx.weatherSummary = ""
                          THEN "Monitor daily weather updates and adjust activities."
                          ELSE ctx.weatherSummary) ] >>,
      steps |-> fallbackSteps(slice(fallbackTasks(extractedTasks(text), ctx.crop),
                                    MaxFallbackSteps),
                              ctx.crop) ]

(***************************************************************************)
(* aiService.js: normalizeStructuredPlan.  The function has no try/catch:  *)
(* a conversion that throws makes the whole call throw (Thrown).           *)
(***************************************************************************)
Thrown == [threw |-> TRUE]
Returned(plan) == [threw |-> FALSE, plan |-> plan]

ActionFields == {"task", "why", "when", "warning"}

normalizeAction(action) ==
    [ task |-> cleanText(Get(action, "task")),
      why |-> cleanText(Get(action, "why")),
      when |-> cleanText(Get(action, "when")),
      warning |-> cleanText(Get(action, "warning")) ]

\* a filter that lets every action through
KeepsAnyAction(a) == TRUE

\* .filter((a) => a.task)
HasTask(a) == a.task # ""

\* actions: step.actions
normalizeActionList(actions) ==
    IF isArray(actions)
    THEN SelectSeq([i \in 1..Len(actions.a) |-> normalizeAction(actions.a[i])], HasTask)
    ELSE <<>>

\* step.actions.map(...).filter((a) => a.task), or [] when not an array
normalizeActions(step) == normalizeActionList(Get(step, "actions"))

actionListThrows(actions) ==
    /\ isArray(actions)
    /\ \E i \in 1..Len(actions.a) :
         \E f \in ActionFields : cleanTextThrows(Get(actions.a[i], f))

actionsThrow(step) == actionListThrows(Get(step, "actions"))

Priorities == {"low", "medium", "high"}
Severities == {"info", "warning", "critical"}

\* Number.isFinite(Number(v)) ? Number(v) : dflt
numberOr(v, dflt) == IF isFiniteNumber(v) THEN Number(v).n ELSE dflt

includesOr(c, allowed, dflt) == IF c \in allowed THEN c ELSE dflt

\* ['low','medium','high'].includes(cleanText(v).toLowerCase()) ? that : dflt
oneOf(v, allowed, dflt) == includesOr(toLowerCase(cleanText(v)), allowed, dflt)

\* value || dflt, for strings
orElse(t, dflt) == IF t = "" THEN dflt ELSE t

\* the object the map callback returns for a step with actions; stepIdx from 0
normalizeStep(step, stepIdx) ==
    [ title |-> orElse(cleanText(Get(step, "title")), "Step " \o NatToStr(stepIdx + 1)),
      phase |-> orElse(toLowerCase(cleanText(Get(step, "phase"))), "planting"),
      start_day |-> numberOr(Get(step, "start_day"), stepIdx * 7),
      end_day |-> numberOr(Get(step, "end_day"), stepIdx * 7 + 6),
      priority |-> oneOf(Get(step, "priority"), Priorities, "medium"),
      reason |-> cleanText(Get(step, "reason")),
      actions |-> normalizeActions(step) ]

stepFieldsThrow(step) ==
    \/ \E f \in {"phase", "title", "priority", "reason"} : cleanTextThrows(Get(step, f))
    \/ \E f \in {"start_day", "end_day"} : NumberThrows(Get(step, f))

\* the map callback throws: on an action, or on a field of a step it keeps
stepThrows(step) ==
    \/ actionsThrow(step)
    \/ Len(normalizeActions(step)) > 0 /\ stepFieldsThrow(step)

\* the positions (from 1) of the raw steps the filter keeps
KeptSteps(rawSteps) == {i \in 1..Len(rawSteps) : Len(normalizeActions(rawSteps[i])) > 0}

RECURSIVE SortedSeq(_)
\* the elements of a set of integers in increasing order
SortedSeq(S) == IF S = {} THEN <<>> ELSE <<Min(S)>> \o SortedSeq(S \ {Min(S)})

\* kept: the positions of the steps the filter keeps, in order
normalizeKept(rawSteps, kept) ==
    [j \in 1..Len(kept) |-> normalizeStep(rawSteps[kept[j]], kept[j] - 1)]

filterSteps(rawSteps) == normalizeKept(rawSteps, SortedSeq(KeptSteps(rawSteps)))

\* a cleanText of the alerts map throws
alertsThrow(alerts) ==
    /\ isArray(alerts)
    /\ \E i \in 1..Len(alerts.a) :
         \E f \in {"title", "severity", "message"} : cleanTextThrows(Get(alerts.a[i], f))

normalizeAlert(a) ==
    [ title |-> cleanText(Get(a, "title")),
      severity |-> oneOf(Get(a, "severity"), Severities, "info"),
      message |-> cleanText(Get(a, "message")) ]

HasTitleOrMessage(a) == a.title # "" \/ a.message # ""

normalizeAlertList(alerts) ==
    IF isArray(alerts)
    THEN SelectSeq([i \in 1..Len(alerts.a) |-> normalizeAlert(alerts.a[i])],
                   HasTitleOrMessage)
    ELSE <<>>

normalizeAlerts(parsed) == normalizeAlertList(Get(parsed, "alerts"))

\* summary: parsed.summary
normalizeSummaryOf(summary, ctx) ==
    [ objective |-> orElse(cleanText(Get(summary, "objective")),
                           "Optimize " \o ctx.crop
                           \o " output through guided farm actions."),
      estimated_harvest_days |->
          numberOr(Get(summary, "estimated_harvest_days"), DefaultHarvestDays),
      expected_yield_kg |->
          numberOr(Get(summary, "expected_yield_kg"), defaultYield(ctx.farmAreaM2)),
      risk_level |-> oneOf(Get(summary, "risk_level"), Priorities, "medium"),
      key_decision |-> orElse(cleanText(Get(summary, "key_decision")),
                              "Focus on timing, water, and pest prevention for "
                              \o ctx.crop \o ".") ]

normalizeSummary(parsed, ctx) == normalizeSummaryOf(Get(parsed, "summary"), ctx)

summaryThrows(summary) ==
    \/ \E f \in {"objective", "risk_level", "key_decision"} :
         cleanTextThrows(Get(summary, f))
    \/ \E f \in {"estimated_harvest_days", "expected_yield_kg"} :
         NumberThrows(Get(summary, f))

summaryOrAlertsThrow(parsed) ==
    summaryThrows(Get(parsed, "summary")) \/ alertsThrow(Get(parsed, "alerts"))

ArrayOrEmpty(steps) == IF isArray(steps) THEN steps.a ELSE <<>>

\* the raw steps normalizeStructuredPlan maps over, <<>> when it takes the
\* fallback at once
RawSteps(parsed) == ArrayOrEmpty(Get(parsed, "steps"))

\* lines 107-168, parsed being extractJsonObject(text)
normalizeParsed(parsed, rawSteps, text, ctx) ==
    IF Falsy(parsed) \/ Len(rawSteps) = 0
    THEN Returned(buildFallbackPlan(text, ctx))
    ELSE IF \E i \in 1..Len(rawSteps) : stepThrows(rawSteps[i]) THEN Thrown
    ELSE IF KeptSteps(rawSteps) = {} THEN Returned(buildFallbackPlan(text, ctx))
    ELSE IF summaryOrAlertsThrow(parsed) THEN Thrown
    ELSE Returned([ summary |-> normalizeSummary(parsed, ctx),
                    alerts |-> normalizeAlerts(parsed),
                    steps |-> filterSteps(rawSteps) ])

normalizeExtracted(parsed, text, ctx) ==
    normalizeParsed(parsed, RawSteps(parsed), text, ctx)

normalizeStructuredPlan(text, ctx) ==
    normalizeExtracted(extractJsonObject(text), text, ctx)

(***************************************************************************)
(* PlantScreen.js: parseStructuredPlan, with its own try/catch             *)
(***************************************************************************)
\* an extraction that looks inside a fence and nowhere else
extractFencedOnly(t) ==
    IF t = "" THEN Null ELSE FirstTruthy(FencedAttempt(t), Null)

\* extractLikelyJson: the same three attempts as extractJsonObject
extractLikelyJson(t) ==
    IF t = "" THEN Null
    ELSE FirstTruthy(DirectAttempt(t),
                     FirstTruthy(FencedAttempt(t), FirstTruthy(BraceAttempt(t), Null)))

ScreenNull == [isNull |-> TRUE]
ScreenPlan(plan) == [isNull |-> FALSE, plan |-> plan]

\* the step object of parseStructuredPlan; stepIdx from 0
screenStep(step, stepIdx) ==
    [ title |-> orElse(cleanText(Get(step, "title")), "Step " \o NatToStr(stepIdx + 1)),
      phase |-> toLowerCase(cleanText(Get(step, "phase"))),
      startDay |-> IF isFiniteNumber(Get(step, "start_day"))
                   THEN Num(Number(Get(step, "start_day")).n) ELSE Null,
      endDay |-> IF isFiniteNumber(Get(step, "end_day"))
                 THEN Num(Number(Get(step, "end_day")).n) ELSE Null,
      priority |-> orElse(toLowerCase(cleanText(Get(step, "priority"))), "medium"),
      reason |-> cleanText(Get(step, "reason")),
      actions |-> normalizeActions(step) ]

screenAlert(a) ==
    [ title |-> cleanText(Get(a, "title")),
      message |-> cleanText(Get(a, "message")),
      severity |-> orElse(toLowerCase(cleanText(Get(a, "severity"))), "info") ]

\* steps: raw.steps, an array
screenStepsThrow(raw, steps) ==
    \/ \E i \in 1..Len(steps) : actionsThrow(steps[i]) \/ stepFieldsThrow(steps[i])
    \/ /\ KeptSteps(steps) # {}
       /\ \/ alertsThrow(Get(raw, "alerts"))
          \/ \E f \in {"objective", "key_decision"} :
               cleanTextThrows(Get(Get(raw, "summary"), f))

screenThrows(raw) == screenStepsThrow(raw, Get(raw, "steps").a)

screenAlerts(alerts) ==
    IF isArray(alerts)
    THEN SelectSeq([i \in 1..Len(alerts.a) |-> screenAlert(alerts.a[i])],
                   HasTitleOrMessage)
    ELSE <<>>

screenSummary(summary) ==
    [ objective |-> cleanText(Get(summary, "objective")),
      keyDecision |-> cleanText(Get(summary, "key_decision")) ]

\* kept: the positions of the steps with actions, in order
screenKept(raw, steps, kept) ==
    IF kept = <<>> THEN ScreenNull
    ELSE ScreenPlan(
           [ summary |-> screenSummary(Get(raw, "summary")),
             alerts |-> screenAlerts(Get(raw, "alerts")),
             steps |-> [j \in 1..Len(kept) |-> screenStep(steps[kept[j]], kept[j] - 1)] ])

screenSteps(raw, steps) ==
    IF ~isArray(steps) \/ Len(steps.a) = 0 THEN ScreenNull
    ELSE IF screenThrows(raw) THEN ScreenNull
    ELSE screenKept(raw, steps.a, SortedSeq(KeptSteps(steps.a)))

screenRaw(raw) == IF Falsy(raw) THEN ScreenNull ELSE screenSteps(raw, Get(raw, "steps"))

parseStructuredPlan(planText) ==
    IF planText = "" THEN ScreenNull ELSE screenRaw(extractLikelyJson(planText))

(***************************************************************************)
(* JSON.stringify of a normalized plan                                     *)
(***************************************************************************)
\* a serializer that escapes nothing
KeepsChar(c) == c

\* JSON.stringify's escapes inside a string
EscapeChar(c) ==
    CASE c = "\"" -> "\\\""
      [] c = "\\" -> "\\\\"
      [] c = "\n" -> "\\n"
      [] c = "\t" -> "\\t"
      [] c = "\r" -> "\\r"
      [] OTHER -> c

EscapeAt(t, i) == EscapeChar(Ch(t, i))

Quote(t) == "\"" \o ConcatMap(EscapeAt, t, 1, Len(t)) \o "\""

RECURSIVE JoinStrings(_, _)
\* q[i] , q[i + 1] , ... joined with commas
JoinStrings(q, i) ==
    IF i > Len(q) THEN ""
    ELSE q[i] \o (IF i < Len(q) THEN "," ELSE "") \o JoinStrings(q, i + 1)

stringifyAction(a) ==
    "{\"task\":" \o Quote(a.task) \o ",\"why\":" \o Quote(a.why)
    \o ",\"when\":" \o Quote(a.when) \o ",\"warning\":" \o Quote(a.warning) \o "}"

stringifyStep(st) ==
    "{\"title\":" \o Quote(st.title) \o ",\"phase\":" \o Quote(st.phase)
    \o ",\"start_day\":" \o NumToStr(st.start_day)
    \o ",\"end_day\":" \o NumToStr(st.end_day)
    \o ",\"priority\":" \o Quote(st.priority) \o ",\"reason\":" \o Quote(st.reason)
    \o ",\"actions\":["
    \o JoinStrings([i \in 1..Len(st.actions) |-> stringifyAction(st.actions[i])], 1)
    \o "]}"

stringifyAlert(a) ==
    "{\"title\":" \o Quote(a.title) \o ",\"severity\":" \o Quote(a.severity)
    \o ",\"message\":" \o Quote(a.message) \o "}"

stringifySummary(m) ==
    "{\"objective\":" \o Quote(m.objective)
    \o ",\"estimated_harvest_days\":" \o NumToStr(m.estimated_harvest_days)
    \o ",\"expected_yield_kg\":" \o NumToStr(m.expected_yield_kg)
    \o ",\"risk_level\":" \o Quote(m.risk_level)
    \o ",\"key_decision\":" \o Quote(m.key_decision) \o "}"

\* JSON.stringify(normalized)
JSONstringify(plan) ==
    "{\"summary\":" \o stringifySummary(plan.summary)
    \o ",\"alerts\":["
    \o JoinStrings([i \in 1..Len(plan.alerts) |-> stringifyAlert(plan.alerts[i])], 1)
    \o "],\"steps\":["
    \o JoinStrings([i \in 1..Len(plan.steps) |-> stringifyStep(plan.steps[i])], 1)
    \o "]}"

(***************************************************************************)
(* generateFarmingPlan: the request client                                 *)
(***************************************************************************)
Haiku == "claude-haiku-4-5-20251001"
Sonnet4 == "claude-sonnet-4-20250514"
Sonnet46 == "claude-sonnet-4-6"

\* export const CLAUDE_MODEL = process.env.EXPO_PUBLIC_ANTHROPIC_MODEL || '...'
CLAUDE_MODEL == IF envModel = "" THEN Haiku ELSE envModel

fallbackModels == <<CLAUDE_MODEL, Haiku, Sonnet4, Sonnet46>>

RECURSIVE Dedup(_, _)
\* [...new Set(q)]: the first occurrence of each element, in order
Dedup(q, i) ==
    IF i > Len(q) THEN <<>>
    ELSE IF \E j \in 1..(i - 1) : q[j] = q[i] THEN Dedup(q, i + 1)
    ELSE <<q[i]>> \o Dedup(q, i + 1)

\* the candidates without the Set: a repeated name is asked twice
ModelsWithDuplicates == SelectSeq(fallbackModels, LAMBDA m : m # "")

\* [...new Set(fallbackModels.filter(Boolean))]
ModelsToTry == Dedup(SelectSeq(fallbackModels, LAMBDA m : m # ""), 1)

Pending == [kind |-> "pending"]
Resolved(v) == [kind |-> "resolved", value |-> v]
Rejected(name, m) == [kind |-> "rejected", name |-> name, message |-> m]

MissingKeyMessage == "Missing EXPO_PUBLIC_ANTHROPIC_API_KEY in .env."
AllFailedMessage == "Claude API failed for all configured models."
InvalidJsonMessage == "Claude API returned an invalid JSON response."
NetworkErrorMessage(m) ==
    "Network error while calling Claude: " \o (IF m = "" THEN "request failed" ELSE m)
EmptyResponseMessage(model) ==
    "Claude returned an empty response for model " \o model \o "."
\* what String(value) raises for an object that cannot be converted
ConversionMessage == "Cannot convert object to primitive value"

RawSliceLength == 300

Ok(status) == status >= 200 /\ status <= 299

\* response.text() after response.json() has read the body
WithRawBody(msg, body, reread) ==
    IF reread /\ trim(body) # ""
    THEN msg \o " " \o SubSeq(body, 1, Min({Len(body), RawSliceLength}))
    ELSE msg

WithApiMessage(msg, apiMsg, body, reread) ==
    IF Falsy(apiMsg) THEN msg
    ELSE IF ToStringThrows(apiMsg) THEN WithRawBody(msg, body, reread)
    ELSE msg \o " " \o String(apiMsg)

WithErrorBody(msg, parsed, body, reread) ==
    IF ~parsed.ok THEN WithRawBody(msg, body, reread)
    ELSE WithApiMessage(msg, Get(Get(parsed.v, "error"), "message"), body, reread)

\* the message built for a response that is not ok (lines 253-266)
ApiErrorMessage(status, model, body, reread) ==
    WithErrorBody("Claude API error (" \o NatToStr(status) \o ") on model " \o model \o ".",
                  JSONparse(body), body, reread)

\* response.status === 404 && /model/i.test(msg)
shouldTryNext(status, msg) == status = 404 /\ Contains(toLowerCase(msg), "model")

RECURSIVE JoinLines(_, _)
\* q.join('\n')
JoinLines(q, i) ==
    IF i > Len(q) THEN ""
    ELSE q[i] \o (IF i < Len(q) THEN "\n" ELSE "") \o JoinLines(q, i + 1)

IsTextPart(part) ==
    /\ Get(part, "type") = Str("text")
    /\ Get(part, "text").t = "string"

\* .map((part) => part.text).join('\n').trim()
JoinedText(parts) ==
    trim(JoinLines([i \in 1..Len(parts) |-> Get(parts[i], "text").s], 1))

TextOfContent(content) ==
    IF isArray(content) THEN JoinedText(SelectSeq(content.a, IsTextPart)) ELSE ""

\* data.content.filter(...).map((part) => part.text).join('\n').trim()
ResponseText(data) == TextOfContent(Get(data, "content"))

\* lines 293-294
OutcomeOfResult(result) ==
    IF result.threw THEN Rejected("TypeError", ConversionMessage)
    ELSE Resolved(JSONstringify(result.plan))

\* lines 289-294
OutcomeOfText(text, model, ctx) ==
    IF text = "" THEN Rejected("Error", EmptyResponseMessage(model))
    ELSE OutcomeOfResult(normalizeStructuredPlan(text, ctx))

\* lines 274-294
OutcomeOfData(parsed, model, ctx) ==
    IF ~parsed.ok THEN Rejected("Error", InvalidJsonMessage)
    ELSE OutcomeOfText(ResponseText(parsed.v), model, ctx)

\* lines 274-294 for an ok response with this body: how the promise settles
OkOutcome(model, body, ctx) == OutcomeOfData(JSONparse(body), model, ctx)

\* ---- what the environment can answer ----
EnvModels == {"", Sonnet46}
ApiKeys == {"", "sk-ant-test"}
CallContext ==
    [crop |-> "Maize", weatherSummary |-> "Sunny, 31C, dry wind", farmAreaM2 |-> 12345]
Contexts ==
    { CallContext,
      [crop |-> "okra", weatherSummary |-> "Weather data unavailable", farmAreaM2 |-> 300] }

RejectMessages == {"", "Network request failed"}
OkStatuses == {200}
ErrorStatuses == {404, 500}
ErrorBodies ==
    { "{\"error\":{\"type\":\"not_found_error\",\"message\":\"model: no such Model\"}}",
      "{\"error\":{\"type\":\"not_found_error\",\"message\":\"Not found\"}}",
      "{\"error\":{}}",
      "<html>Bad gateway</html>" }

GoodPlanText ==
    "{\"summary\":{\"risk_level\":\"low\"},"
    \o "\"steps\":[{\"title\":\"Prepare\",\"phase\":\"soil\",\"end_day\":3,"
    \o "\"actions\":[{\"task\":\"Till soil\"},{\"task\":\"\"}]},"
    \o "{\"title\":\"Idle\",\"actions\":[]}]}"
ProseText == "Water the field early.\nThen weed it."
ThrowingPlanText == "{\"steps\":[{\"actions\":[{\"task\":{\"toString\":1}}]}]}"

TextPart(text) == "{\"type\":\"text\",\"text\":" \o Quote(text) \o "}"
OkBody(parts) == "{\"id\":\"msg_1\",\"content\":[" \o JoinStrings(parts, 1) \o "]}"

OkBodies ==
    { OkBody(<<TextPart(GoodPlanText)>>),
      OkBody(<<"{\"type\":\"tool_use\",\"text\":7}", TextPart("~~~json"),
               TextPart(GoodPlanText), TextPart("~~~")>>),
      OkBody(<<TextPart(ProseText)>>),
      OkBody(<<TextPart(ThrowingPlanText)>>),
      OkBody(<<TextPart(" \n ")>>),
      OkBody(<<>>),
      "{\"id\":\"msg_1\"}",
      "<html>Bad gateway</html>" }

\* the call without its credential check
EnterWithoutKeyCheck ==
    /\ pc = "called"
    /\ modelsToTry' = ModelsToTry
    /\ modelIdx' = 1
    /\ lastError' = Null
    /\ pc' = "loop"
    /\ UNCHANGED <<apiKey, envModel, requests, inFlight, responses, outcome>>
    /\ UNCHANGED <<context, normVars, walkVars, wizVars, mktVars>>

\* lines 219-230: the credential check, then the candidate list
Enter ==
    /\ pc = "called"
    /\ IF apiKey = ""
       THEN /\ outcome' = Rejected("Error", MissingKeyMessage)
            /\ pc' = "done"
            /\ UNCHANGED <<modelsToTry, modelIdx, lastError>>
       ELSE /\ modelsToTry' = ModelsToTry
            /\ modelIdx' = 1
            /\ lastError' = Null
            /\ pc' = "loop"
            /\ UNCHANGED outcome
    /\ UNCHANGED <<apiKey, envModel, requests, inFlight, responses>>
    /\ UNCHANGED <<context, normVars, walkVars, wizVars, mktVars>>

\* lines 232-248: the next candidate of the for..of loop is requested
Fetch ==
    /\ pc = "loop"
    /\ modelIdx <= Len(modelsToTry)
    /\ requests' = Append(requests, modelsToTry[modelIdx])
    /\ inFlight' = inFlight + 1
    /\ pc' = "fetching"
    /\ UNCHANGED <<apiKey, envModel, modelsToTry, modelIdx, responses, lastError, outcome>>
    /\ UNCHANGED <<context, normVars, walkVars, wizVars, mktVars>>

\* a rejected fetch() handled like an unavailable model: on to the next one
FetchRejectedContinues(m) ==
    /\ pc = "fetching"
    /\ inFlight' = inFlight - 1
    /\ responses' = Append(responses, [kind |-> "rejected", message |-> m])
    /\ lastError' = Str(NetworkErrorMessage(m))
    /\ modelIdx' = modelIdx + 1
    /\ pc' = "loop"
    /\ UNCHANGED <<apiKey, envModel, modelsToTry, requests, outcome>>
    /\ UNCHANGED <<context, normVars, walkVars, wizVars, mktVars>>

\* lines 249-251: fetch() rejected
FetchRejected(m) ==
    /\ pc = "fetching"
    /\ inFlight' = inFlight - 1
    /\ responses' = Append(responses, [kind |-> "rejected", message |-> m])
    /\ outcome' = Rejected("Error", NetworkErrorMessage(m))
    /\ pc' = "done"
    /\ UNCHANGED <<apiKey, envModel, modelsToTry, modelIdx, requests, lastError>>
    /\ UNCHANGED <<context, normVars, walkVars, wizVars, mktVars>>

\* lines 253-271: a response that is not ok, msg being the message built
HandleError(status, msg) ==
    /\ lastError' = Str(msg)
    /\ IF shouldTryNext(status, msg)
       THEN /\ modelIdx' = modelIdx + 1
            /\ pc' = "loop"
            /\ UNCHANGED outcome
       ELSE /\ outcome' = Rejected("Error", msg)
            /\ pc' = "done"
            /\ UNCHANGED modelIdx

ErrorResponse(status, body, reread) ==
    /\ pc = "fetching"
    /\ ~Ok(status)
    /\ inFlight' = inFlight - 1
    /\ responses' = Append(responses, [kind |-> "http", status |-> status, body |-> body])
    /\ HandleError(status, ApiErrorMessage(status, modelsToTry[modelIdx], body, reread))
    /\ UNCHANGED <<apiKey, envModel, modelsToTry, requests>>
    /\ UNCHANGED <<context, normVars, walkVars, wizVars, mktVars>>

\* lines 274-294: an ok response
OkResponse(status, body) ==
    /\ pc = "fetching"
    /\ Ok(status)
    /\ inFlight' = inFlight - 1
    /\ responses' = Append(responses, [kind |-> "http", status |-> status, body |-> body])
    /\ outcome' = OkOutcome(modelsToTry[modelIdx], body, context)
    /\ pc' = "done"
    /\ UNCHANGED <<apiKey, envModel, modelsToTry, modelIdx, requests, lastError>>
    /\ UNCHANGED <<context, normVars, walkVars, wizVars, mktVars>>

\* the loop's end reporting the generic message whatever was recorded
ExhaustedGeneric ==
    /\ pc = "loop"
    /\ modelIdx > Len(modelsToTry)
    /\ outcome' = Rejected("Error", AllFailedMessage)
    /\ pc' = "done"
    /\ UNCHANGED <<apiKey, envModel, modelsToTry, modelIdx, requests, inFlight,
                   responses, lastError>>
    /\ UNCHANGED <<context, normVars, walkVars, wizVars, mktVars>>

\* line 297: the loop ran out of candidates
Exhausted ==
    /\ pc = "loop"
    /\ modelIdx > Len(modelsToTry)
    /\ outcome' = Rejected("Error",
                      IF Falsy(lastError) THEN AllFailedMessage ELSE lastError.s)
    /\ pc' = "done"
    /\ UNCHANGED <<apiKey, envModel, modelsToTry, modelIdx, requests, inFlight,
                   responses, lastError>>
    /\ UNCHANGED <<context, normVars, walkVars, wizVars, mktVars>>

(***************************************************************************)
(* The normalizer applied to one text                                      *)
(***************************************************************************)
MaxItems == 3

NextStep == "|"
ActionItems ==
    { "{\"task\":\"Till soil\",\"why\":\"Loosens it\"}",
      "{\"task\":\" \\t~~~ \"}",
      "{\"task\":7}",
      "null",
      "{\"task\":{\"toString\":1}}" }
Items == ActionItems \cup {NextStep}
Layouts == UNION {[1..n -> Items] : n \in 0..MaxItems}

RECURSIVE RenderItems(_, _, _)
\* the actions of the layout from item i on; NextStep closes a step
RenderItems(q, i, first) ==
    IF i > Len(q) THEN "]}"
    ELSE IF q[i] = NextStep
         THEN "]},{\"actions\":[" \o RenderItems(q, i + 1, TRUE)
         ELSE (IF first THEN "" ELSE ",") \o q[i] \o RenderItems(q, i + 1, FALSE)

RenderPlan(q) == "{\"steps\":[{\"actions\":[" \o RenderItems(q, 1, TRUE) \o "]}"

Wrappings == {"bare", "fenced", "prose"}
Wrap(kind, doc) ==
    CASE kind = "bare" -> doc
      [] kind = "fenced" -> "Here is the plan:\n~~~json\n" \o doc \o "\n~~~\nGood luck."
      [] kind = "prose" -> "Plan: " \o doc \o " -- end"

\* prose, then a fenced block holding the plan
FencedProseText == Wrap("fenced", GoodPlanText)
\* one step, one action, a trailing comma before every closing bracket
TrailingCommaText ==
    "{\"steps\":[{\"title\":\"Prep\",\"actions\":[{\"task\":\"Till soil\",},],},],}"
\* the whole text parses, and a string inside it holds a fenced block
FenceInStringText == "{\"x\":\"~~~json 5 ~~~\"}"
\* a fenced block that parses, then braces that parse too
FenceBeforeBracesText == "~~~json\n7\n~~~ {\"z\":2}"
\* a fenced block whose interior needs the commas removed
FencedTrailingCommaText == "~~~json\n{\"steps\":[{\"actions\":[{\"task\":\"Hoe\"},]}]}\n~~~"

\* summaries whose expected_yield_kg is null, a numeric string, no number
YieldTexts ==
    { "{\"summary\":{\"expected_yield_kg\":" \o y \o "},"
        \o "\"steps\":[{\"actions\":[{\"task\":\"Sow\"}]}]}" :
      y \in {"null", "\"900\"", "\"lots\"", "40", "\"\"", "[]"} }
\* a second step whose start_day and end_day are negative, null, a numeric
\* string, no number, or in order
DayTexts ==
    { "{\"steps\":[{\"actions\":[{\"task\":\"Sow\"}]},"
        \o "{\"start_day\":" \o d[1] \o ",\"end_day\":" \o d[2] \o ","
        \o "\"actions\":[{\"task\":\"Weed\"}]},"
        \o "{\"actions\":[{\"task\":\"Reap\"}]}]}" :
      d \in { <<"-3", "-1">>, <<"null", "\"soon\"">>, <<"\"12\"", "20">>,
              <<"9", "15">>, <<"\"x\"", "null">> } }
\* nine lines that qualify as tasks, bulleted and numbered
ManyLinesText ==
    "- Clear the field of stones\n- Plough along the contour\n"
    \o "1. Spread compost evenly\n2) Mark rows one metre apart\n"
    \o "- Sow two seeds per hole\n- Water every second day\n"
    \o "- Weed after three weeks\n- Watch leaves for borers\n"
    \o "- Harvest when husks dry"
\* enumerated fields holding values outside their sets
OddEnumsText ==
    "{\"summary\":{\"risk_level\":\"Extreme\"},"
    \o "\"alerts\":[{\"title\":\"A\",\"severity\":\"fatal\"}],"
    \o "\"steps\":[{\"phase\":\"Irrigation\",\"priority\":\"urgent\","
    \o "\"actions\":[{\"task\":\"Sow\"}]},"
    \o "{\"priority\":\"HIGH\",\"actions\":[{\"task\":\"Weed\"}]}]}"

OddTexts ==
    { "", "   ", "no plan today",
      "Plan\n- Plough the whole field twice\n- Spread manure over the rows\n"
        \o "3. Sow the seed at 5cm depth\n* Water every second morning\nshort\n",
      "{\"steps\":[", "[1,2]", "\"steps\"", "42", "null", "{}",
      "{\"steps\":\"none\"}", "{\"steps\":[]}",
      "{\"steps\":[null,5,\"s\",[1]]}",
      "{\"steps\":[{\"actions\":\"none\"},{\"title\":\"T\"}]}",
      "{\"steps\":[{\"actions\":[{\"task\":\"Sow seed\"},],},],}",
      "{\"steps\":[{\"title\":{\"toString\":1},\"actions\":[{\"task\":\"Sow\"}]}]}",
      "{\"steps\":[{\"title\":{\"toString\":1},\"actions\":[]},"
        \o "{\"start_day\":\"4\",\"priority\":\"HIGH\",\"actions\":[{\"task\":\"Sow\"}]}]}",
      "{\"summary\":{\"objective\":{\"toString\":null}},"
        \o "\"steps\":[{\"actions\":[{\"task\":\"Sow\"}]}]}",
      "{\"steps\":[{\"actions\":[{\"task\":\"Sow\"},{\"task\":\" \"}]},"
        \o "{\"actions\":[{\"task\":\"~~~\"}]},"
        \o "{\"actions\":[{\"why\":\"w\"},{\"task\":\"Weed\"}]}]}",
      GoodPlanText, TrailingCommaText, FenceInStringText, FenceBeforeBracesText,
      FencedTrailingCommaText }

WrappedTexts == {Wrap(w, GoodPlanText) : w \in Wrappings}

RawTexts ==
    OddTexts \cup WrappedTexts \cup YieldTexts \cup DayTexts
    \cup {OddEnumsText, ManyLinesText}
    \cup {RenderPlan(q) : q \in Layouts}

NotRun == [pending |-> TRUE]

\* normalizeStructuredPlan(rawText, context)
Normalize ==
    /\ nPc = "ready"
    /\ normalized' = normalizeStructuredPlan(rawText, context)
    /\ nPc' = "normalized"
    /\ UNCHANGED <<rawText, screenPlan, renormalized>>
    /\ UNCHANGED <<context, clientVars, walkVars, wizVars, mktVars>>

\* parseStructuredPlan(rawText)
ScreenParse ==
    /\ nPc = "normalized"
    /\ screenPlan' = parseStructuredPlan(rawText)
    /\ nPc' = "parsed"
    /\ UNCHANGED <<rawText, normalized, renormalized>>
    /\ UNCHANGED <<context, clientVars, walkVars, wizVars, mktVars>>

\* JSON.stringify(normalized), as line 294 hands the plan on, then
\* normalizeStructuredPlan on that text
Renormalize ==
    /\ nPc = "normalized"
    /\ ~normalized.threw
    /\ renormalized' = normalizeStructuredPlan(JSONstringify(normalized.plan), context)
    /\ nPc' = "renormalized"
    /\ UNCHANGED <<rawText, normalized, screenPlan>>
    /\ UNCHANGED <<context, clientVars, walkVars, wizVars, mktVars>>

\* PlantScreen.js, line 253, on the string generateFarmingPlan resolved
\* with (aiService.js, lines 293-294)
ScreenParseReturned ==
    /\ nPc = "renormalized"
    /\ screenPlan' = parseStructuredPlan(JSONstringify(normalized.plan))
    /\ nPc' = "shown"
    /\ UNCHANGED <<rawText, normalized, renormalized>>
    /\ UNCHANGED <<context, clientVars, walkVars, wizVars, mktVars>>

MaxRoundTripItems == 2
\* a task holding a quote, a backslash and a line break
EscapedTaskText ==
    "{\"steps\":[{\"actions\":[{\"task\":\"Say \\\"hi\\\" to C:\\\\farm\\nnow\"}]}]}"
RoundTripTexts ==
    OddTexts \cup WrappedTexts \cup YieldTexts \cup {OddEnumsText, EscapedTaskText}
    \cup {RenderPlan(q) : q \in UNION {[1..n -> Items] : n \in 0..MaxRoundTripItems}}

(***************************************************************************)
(* The walkthrough of PlantScreen                                          *)
(***************************************************************************)
MaxSections == 3
MaxActionItems == 2

\* planSections, each section given by actionItems.length
SectionLayouts == UNION {[1..n -> 0..MaxActionItems] : n \in 0..MaxSections}

RECURSIVE SumTo(_, _)
SumTo(f, n) == IF n = 0 THEN 0 ELSE f[n] + SumTo(f, n - 1)

\* `${sectionIdx}-${actionIdx}`
getActionKey(sectionIdx, actionIdx) == NatToStr(sectionIdx) \o "-" \o NatToStr(actionIdx)

\* completedActions[key], undefined read as false
IsChecked(done, key) == key \in DOMAIN done /\ done[key]

\* { ...prev, [key]: value }
SetKey(prev, key, value) ==
    [k \in DOMAIN prev \cup {key} |-> IF k = key THEN value ELSE prev[k]]

getCompletedActionsForSection(secs, done, sectionIdx) ==
    Cardinality({a \in 0..(secs[sectionIdx + 1] - 1) :
                    IsChecked(done, getActionKey(sectionIdx, a))})

totalActionCount(secs) == SumTo(secs, Len(secs))

completedActionCount(secs, done) ==
    SumTo([i \in 1..Len(secs) |-> getCompletedActionsForSection(secs, done, i - 1)],
          Len(secs))

\* a section taken as completed once none of its items is left
isSectionCompletedOrEmpty(secs, done, sectionIdx) ==
    getCompletedActionsForSection(secs, done, sectionIdx) = secs[sectionIdx + 1]

\* lines 286-288 (MarketScreen.js, lines 773-775)
isSectionCompleted(secs, done, sectionIdx) ==
    /\ secs[sectionIdx + 1] > 0
    /\ getCompletedActionsForSection(secs, done, sectionIdx) = secs[sectionIdx + 1]

\* planSections.findIndex(...) of MarketScreen.js, line 782: -1 when no
\* section is found
nextIncompleteSectionIdx(secs, done) ==
    IF \A i \in 0..(Len(secs) - 1) : isSectionCompleted(secs, done, i)
    THEN 0 - 1
    ELSE Min({i \in 0..(Len(secs) - 1) : ~isSectionCompleted(secs, done, i)})

RECURSIVE TasksFrom(_, _)
\* walkthroughTasks: one task per action item, section by section
TasksFrom(secs, i) ==
    IF i > Len(secs) THEN <<>>
    ELSE [a \in 1..secs[i] |-> [sectionIdx |-> i - 1, actionIdx |-> a - 1]]
         \o TasksFrom(secs, i + 1)

walkthroughTasks == TasksFrom(sections, 1)
totalTaskCount == Len(walkthroughTasks)
boundedTaskIdx ==
    IF totalTaskCount > 0 THEN Min({currentTaskIdx, totalTaskCount - 1}) ELSE 0
HasCurrentTask == totalTaskCount > 0
currentTask == walkthroughTasks[boundedTaskIdx + 1]

\* Math.round((completed / total) * 100)
RoundPercent(completed, total) == (200 * completed + total) \div (2 * total)

progressPercent ==
    IF totalActionCount(sections) > 0
    THEN RoundPercent(completedActionCount(sections, completedActions),
                      totalActionCount(sections))
    ELSE 0

\* a goToTask that hands its argument on as it is
goToTaskUnclamped(nextIdx) == nextIdx

\* goToTask(nextIdx): the value it hands to setCurrentTaskIdx
goToTask(nextIdx) ==
    IF totalTaskCount = 0 THEN currentTaskIdx
    ELSE Max({0, Min({nextIdx, totalTaskCount - 1})})

MaxCalls == MaxSections * MaxActionItems + 2

\* the handler moving the cursor on without looking at the last task
completeAndAdvanceUnbounded ==
    /\ wPc = "walking"
    /\ calls < MaxCalls
    /\ calls' = calls + 1
    /\ IF ~HasCurrentTask
       THEN UNCHANGED <<completedActions, currentTaskIdx>>
       ELSE /\ completedActions' =
                   SetKey(completedActions,
                          getActionKey(currentTask.sectionIdx, currentTask.actionIdx),
                          TRUE)
            /\ currentTaskIdx' = currentTaskIdx + 1
    /\ UNCHANGED <<wPc, sections, timers, marked, lastOp>>
    /\ UNCHANGED <<context, clientVars, normVars, wizVars, mktVars>>

\* lines 790-797
completeAndAdvance ==
    /\ wPc = "walking"
    /\ calls < MaxCalls
    /\ calls' = calls + 1
    /\ IF ~HasCurrentTask
       THEN UNCHANGED <<completedActions, currentTaskIdx>>
       ELSE /\ completedActions' =
                   SetKey(completedActions,
                          getActionKey(currentTask.sectionIdx, currentTask.actionIdx),
                          TRUE)
            /\ currentTaskIdx' =
                   IF boundedTaskIdx < totalTaskCount - 1
                   THEN goToTask(boundedTaskIdx + 1)
                   ELSE currentTaskIdx
    /\ UNCHANGED <<wPc, sections, timers, marked, lastOp>>
    /\ UNCHANGED <<context, clientVars, normVars, wizVars, mktVars>>

(***************************************************************************)
(* The plan screen: PlantScreen's walkthrough state under its handlers,    *)
(* its timer and its two effects.  A handler runs in a committed render    *)
(* whose effects have been flushed, and each action carries the state      *)
(* through the effects its assignments trigger.                            *)
(***************************************************************************)
MaxOps == 6

\* what aiPlan can hold, as the shape of planSections: '' (no section), and
\* plans of one to three sections; parsePlanSections keeps a section that
\* has content and no action item (line 230)
ScreenPlans == {<<>>, <<1>>, <<2, 1>>, <<1, 2>>, <<0, 2>>, <<1, 0>>, <<2, 1, 1>>}

TotalOf(plan) == Len(TasksFrom(plan, 1))

NoOp == [name |-> "none", arg |-> 0, idx |-> 0, raw |-> 0, total |-> 0, done |-> <<>>,
         pending |-> 0]

\* the render a handler runs in: its boundedTaskIdx, currentTaskIdx,
\* totalTaskCount and completedActions, and the timers pending then
Render(name, arg) ==
    [name |-> name, arg |-> arg, idx |-> boundedTaskIdx, raw |-> currentTaskIdx,
     total |-> totalTaskCount, done |-> completedActions, pending |-> Len(timers)]

\* a render whose effect leaves the cursor where it is
clampEffectUnguarded(idx, total) == idx

\* lines 338-343, run after a render with cursor idx over total tasks
clampEffect(idx, total) ==
    IF total = 0 THEN idx
    ELSE IF idx > total - 1 THEN total - 1 ELSE idx

\* lines 278-281 followed by lines 338-343 in the render that first shows
\* plan: the reset queues 0, and the clamp, which still reads the cursor of
\* that render, queues its value behind it
cursorAfterReplacement(plan) ==
    IF TotalOf(plan) # totalTaskCount /\ TotalOf(plan) # 0
          /\ currentTaskIdx > TotalOf(plan) - 1
    THEN TotalOf(plan) - 1
    ELSE 0

\* setAiPlan(plan) and the effects of the render it causes; a value equal
\* to the state causes no render
setAiPlan(plan) ==
    IF plan = sections
    THEN UNCHANGED <<sections, completedActions, currentTaskIdx>>
    ELSE /\ sections' = plan
         /\ completedActions' = <<>>
         /\ currentTaskIdx' = cursorAfterReplacement(plan)

\* lines 467-490, the call of generateFarmingPlan having resolved with plan
generatePlan(plan) ==
    /\ wPc = "screen"
    /\ calls < MaxOps
    /\ plan # <<>>
    /\ calls' = calls + 1
    /\ setAiPlan(plan)
    /\ marked' = {}
    /\ lastOp' = Render("generatePlan", 0)
    /\ UNCHANGED <<wPc, timers>>
    /\ UNCHANGED <<context, clientVars, normVars, wizVars, mktVars>>

\* lines 525-531, the OK button of the "Plan Saved!" alert
savePlanDismissed ==
    /\ wPc = "screen"
    /\ calls < MaxOps
    /\ calls' = calls + 1
    /\ setAiPlan(<<>>)
    /\ marked' = {}
    /\ lastOp' = Render("savePlan", 0)
    /\ UNCHANGED <<wPc, timers>>
    /\ UNCHANGED <<context, clientVars, normVars, wizVars, mktVars>>

currentKey == getActionKey(currentTask.sectionIdx, currentTask.actionIdx)

\* a toggle that sets its timer whichever way the bit went
toggleCurrentTaskAlwaysTimed ==
    /\ wPc = "screen"
    /\ calls < MaxOps
    /\ calls' = calls + 1
    /\ lastOp' = Render("toggleCurrentTask", 0)
    /\ IF ~HasCurrentTask
       THEN UNCHANGED <<completedActions, timers, marked>>
       ELSE /\ completedActions' =
                   SetKey(completedActions, currentKey,
                          ~IsChecked(completedActions, currentKey))
            /\ marked' = IF IsChecked(completedActions, currentKey)
                         THEN marked \ {currentKey}
                         ELSE marked \cup {currentKey}
            /\ timers' =
                   IF boundedTaskIdx < totalTaskCount - 1
                   THEN Append(timers, [nextIdx |-> boundedTaskIdx + 1,
                                        totalTaskCount |-> totalTaskCount])
                   ELSE timers
    /\ UNCHANGED <<wPc, sections, currentTaskIdx>>
    /\ UNCHANGED <<context, clientVars, normVars, wizVars, mktVars>>

\* lines 780-788
toggleCurrentTask ==
    /\ wPc = "screen"
    /\ calls < MaxOps
    /\ calls' = calls + 1
    /\ lastOp' = Render("toggleCurrentTask", 0)
    /\ IF ~HasCurrentTask
       THEN UNCHANGED <<completedActions, timers, marked>>
       ELSE /\ completedActions' =
                   SetKey(completedActions, currentKey,
                          ~IsChecked(completedActions, currentKey))
            /\ marked' = IF IsChecked(completedActions, currentKey)
                         THEN marked \ {currentKey}
                         ELSE marked \cup {currentKey}
            /\ timers' =
                   IF ~IsChecked(completedActions, currentKey)
                         /\ boundedTaskIdx < totalTaskCount - 1
                   THEN Append(timers, [nextIdx |-> boundedTaskIdx + 1,
                                        totalTaskCount |-> totalTaskCount])
                   ELSE timers
    /\ UNCHANGED <<wPc, sections, currentTaskIdx>>
    /\ UNCHANGED <<context, clientVars, normVars, wizVars, mktVars>>

\* the callback of line 786: goToTask of the render that set the timer
timerFires ==
    /\ wPc = "screen"
    /\ timers # <<>>
    /\ timers' = Tail(timers)
    /\ lastOp' = [Render("timer", Head(timers).nextIdx)
                    EXCEPT !.total = Head(timers).totalTaskCount]
    /\ currentTaskIdx' =
           clampEffect(Max({0, Min({Head(timers).nextIdx,
                                    Head(timers).totalTaskCount - 1})}),
                       totalTaskCount)
    /\ UNCHANGED <<wPc, sections, completedActions, calls, marked>>
    /\ UNCHANGED <<context, clientVars, normVars, wizVars, mktVars>>

\* lines 790-797 on the screen
completeAndAdvancePressed ==
    /\ wPc = "screen"
    /\ calls < MaxOps
    /\ calls' = calls + 1
    /\ lastOp' = Render("completeAndAdvance", 0)
    /\ IF ~HasCurrentTask
       THEN UNCHANGED <<completedActions, currentTaskIdx, marked>>
       ELSE /\ completedActions' = SetKey(completedActions, currentKey, TRUE)
            /\ marked' = marked \cup {currentKey}
            /\ currentTaskIdx' =
                   IF boundedTaskIdx < totalTaskCount - 1
                   THEN clampEffect(goToTask(boundedTaskIdx + 1), totalTaskCount)
                   ELSE currentTaskIdx
    /\ UNCHANGED <<wPc, sections, timers>>
    /\ UNCHANGED <<context, clientVars, normVars, wizVars, mktVars>>

\* the indices goToTask is tried with: negative, in range and too large
MaxGoTo == 5
GoToArgs == (0 - MaxGoTo)..MaxGoTo

\* a press that calls goToTask(nextIdx) (lines 770-774, 987)
goToTaskPressed(nextIdx) ==
    /\ wPc = "screen"
    /\ calls < MaxOps
    /\ calls' = calls + 1
    /\ lastOp' = Render("goToTask", nextIdx)
    /\ currentTaskIdx' = clampEffect(goToTask(nextIdx), totalTaskCount)
    /\ UNCHANGED <<wPc, sections, completedActions, timers, marked>>
    /\ UNCHANGED <<context, clientVars, normVars, wizVars, mktVars>>

(***************************************************************************)
(* The plan wizard of PlantScreen: the four steps, the boundary, the crop, *)
(* generatePlan with its weather lookup, savePlan, and the dialogs of      *)
(* Alert.alert.  A dialog is modal: while one is open the screen under it  *)
(* takes no press, and calls that are under way still settle.              *)
(***************************************************************************)
MaxPoints == 3
MaxGenerations == 3

\* proceedToStep2 asks for at least 3 points (line 451)
MinBoundaryPoints == 3

CropNames == {"Maize"}
PlanTexts == {"planA", "planB"}
\* what generateFarmingPlan rejects with (aiService.js, lines 220, 250)
PlanErrors ==
    { "Missing EXPO_PUBLIC_ANTHROPIC_API_KEY in .env.",
      "Network error while calling Claude: request failed" }

\* how getWeatherData and formatWeatherSummary can end: a forecast with
\* current conditions, one without, one whose current has no condition
\* (formatWeatherSummary throws), a rejected lookup
WeatherOutcomes == {"ok", "noCurrent", "badShape", "failed"}

WeatherUnavailable == "Weather data unavailable"
FormattedWeather == "28C, Sunny, Humidity: 60%, Wind: 9 km/h"

\* weatherSummary after the inner try/catch (lines 472-482)
summaryAfter(how) == IF how = "ok" THEN FormattedWeather ELSE WeatherUnavailable

\* setWeather(weatherData) is reached unless the lookup or the formatting threw
weatherAfter(how) ==
    IF how \in {"ok", "noCurrent"} THEN how ELSE weather

NoWizOp == [name |-> "none", arg |-> 0, aiPlan |-> "", alerts |-> 0, calls |-> 0]

\* the state a handler or a completion found
Before(name, arg) ==
    [name |-> name, arg |-> arg, aiPlan |-> aiPlan, alerts |-> Len(openAlerts),
     calls |-> Cardinality(planCalls)]

\* the screen takes presses
Interactive == wizardStep \in 0..3 /\ openAlerts = <<>>

\* error?.message || 'Could not generate plan. ...' (lines 492-495)
alertMessage(message) ==
    IF message = ""
    THEN "Could not generate plan. Verify Claude API key, model, and internet connection."
    ELSE message

\* handleMapPress (lines 434-437), offered while no analysis runs (line 601)
handleMapPress ==
    /\ Interactive /\ wizardStep = 0 /\ ~isAnalyzingPlot
    /\ farmBoundary < MaxPoints
    /\ farmBoundary' = farmBoundary + 1
    /\ wizLast' = Before("handleMapPress", 0)
    /\ UNCHANGED <<wizardStep, selectedCrop, aiPlan, weather, loading, saving,
                   isAnalyzingPlot, openAlerts, planCalls, started>>
    /\ UNCHANGED <<context, clientVars, normVars, walkVars, mktVars>>

\* undoLastPoint (lines 439-441)
undoLastPoint ==
    /\ Interactive /\ wizardStep = 0 /\ ~isAnalyzingPlot
    /\ farmBoundary > 0
    /\ farmBoundary' = farmBoundary - 1
    /\ wizLast' = Before("undoLastPoint", 0)
    /\ UNCHANGED <<wizardStep, selectedCrop, aiPlan, weather, loading, saving,
                   isAnalyzingPlot, openAlerts, planCalls, started>>
    /\ UNCHANGED <<context, clientVars, normVars, walkVars, mktVars>>

\* clearBoundary (lines 443-448): it only opens the dialog
clearBoundary ==
    /\ Interactive /\ wizardStep = 0 /\ ~isAnalyzingPlot
    /\ farmBoundary > 0
    /\ openAlerts' = Append(openAlerts, [kind |-> "clear", message |-> ""])
    /\ wizLast' = Before("clearBoundary", 0)
    /\ UNCHANGED <<wizardStep, farmBoundary, selectedCrop, aiPlan, weather, loading,
                   saving, isAnalyzingPlot, planCalls, started>>
    /\ UNCHANGED <<context, clientVars, normVars, walkVars, mktVars>>

\* proceedToStep2 up to its first await (lines 450-461); the button is
\* disabled below 3 points and during the analysis (line 708)
proceedToStep2 ==
    /\ Interactive /\ wizardStep = 0 /\ ~isAnalyzingPlot
    /\ farmBoundary >= MinBoundaryPoints
    /\ isAnalyzingPlot' = TRUE
    /\ wizLast' = Before("proceedToStep2", 0)
    /\ UNCHANGED <<wizardStep, farmBoundary, selectedCrop, aiPlan, weather, loading,
                   saving, openAlerts, planCalls, started>>
    /\ UNCHANGED <<context, clientVars, normVars, walkVars, mktVars>>

\* proceedToStep2 after its last await (lines 463-464)
analysisDone ==
    /\ isAnalyzingPlot
    /\ isAnalyzingPlot' = FALSE
    /\ wizardStep' = 1
    /\ wizLast' = Before("analysisDone", 0)
    /\ UNCHANGED <<farmBoundary, selectedCrop, aiPlan, weather, loading, saving,
                   openAlerts, planCalls, started>>
    /\ UNCHANGED <<context, clientVars, normVars, walkVars, mktVars>>

\* line 734
selectCrop(name) ==
    /\ Interactive /\ wizardStep = 1
    /\ selectedCrop' = name
    /\ wizLast' = Before("selectCrop", 0)
    /\ UNCHANGED <<wizardStep, farmBoundary, aiPlan, weather, loading, saving,
                   isAnalyzingPlot, openAlerts, planCalls, started>>
    /\ UNCHANGED <<context, clientVars, normVars, walkVars, mktVars>>

\* the Back buttons (lines 751, 1017, 1069) and Review & Save (line 1021);
\* step 2 shows its buttons only when loading is false (line 829)
setStep(from, to) ==
    /\ Interactive /\ wizardStep = from
    /\ from = 2 => ~loading
    /\ wizardStep' = to
    /\ wizLast' = Before("setStep", to)
    /\ UNCHANGED <<farmBoundary, selectedCrop, aiPlan, weather, loading, saving,
                   isAnalyzingPlot, openAlerts, planCalls, started>>
    /\ UNCHANGED <<context, clientVars, normVars, walkVars, mktVars>>

StepButtons == {<<1, 0>>, <<2, 1>>, <<2, 3>>, <<3, 2>>}

\* the call as generatePlan's closure holds it; without a farm center the
\* lookup is skipped and generateFarmingPlan is called at once
newCall ==
    [ id |-> started + 1, crop |-> selectedCrop, points |-> farmBoundary,
      lookup |-> IF farmBoundary > 0 THEN "pending" ELSE "skipped",
      requested |-> farmBoundary = 0,
      weatherSummary |-> IF farmBoundary > 0 THEN "" ELSE WeatherUnavailable ]

\* generatePlan up to its first await (lines 467-476 or 467-489); the
\* button is disabled without a crop (line 758)
generatePlanPressed ==
    /\ Interactive /\ wizardStep = 1
    /\ selectedCrop # ""
    /\ started < MaxGenerations
    /\ started' = started + 1
    /\ wizardStep' = 2
    /\ loading' = TRUE
    /\ planCalls' = planCalls \cup {newCall}
    /\ wizLast' = Before("generatePlan", started + 1)
    /\ UNCHANGED <<farmBoundary, selectedCrop, aiPlan, weather, saving,
                   isAnalyzingPlot, openAlerts>>
    /\ UNCHANGED <<context, clientVars, normVars, walkVars, mktVars>>

\* a lookup that, when it fails, ends the call with the dialog of line 497
weatherSettlesOrFails(c, how) ==
    /\ c \in planCalls /\ c.lookup = "pending"
    /\ IF how = "failed"
       THEN /\ planCalls' = planCalls \ {c}
            /\ openAlerts' = Append(openAlerts,
                                    [kind |-> "failed", message |-> "Failed to fetch weather data"])
            /\ loading' = FALSE
            /\ UNCHANGED weather
       ELSE /\ planCalls' = (planCalls \ {c}) \cup
                   {[c EXCEPT !.lookup = how, !.requested = TRUE,
                              !.weatherSummary = summaryAfter(how)]}
            /\ weather' = weatherAfter(how)
            /\ UNCHANGED <<openAlerts, loading>>
    /\ wizLast' = Before("weatherSettled", c.id)
    /\ UNCHANGED <<wizardStep, farmBoundary, selectedCrop, aiPlan, saving,
                   isAnalyzingPlot, started>>
    /\ UNCHANGED <<context, clientVars, normVars, walkVars, mktVars>>

\* getWeatherData settles, and generatePlan runs on to the call of
\* generateFarmingPlan (lines 476-489)
weatherSettles(c, how) ==
    /\ c \in planCalls /\ c.lookup = "pending"
    /\ planCalls' = (planCalls \ {c}) \cup
           {[c EXCEPT !.lookup = how, !.requested = TRUE,
                      !.weatherSummary = summaryAfter(how)]}
    /\ weather' = weatherAfter(how)
    /\ wizLast' = Before("weatherSettled", c.id)
    /\ UNCHANGED <<wizardStep, farmBoundary, selectedCrop, aiPlan, loading, saving,
                   isAnalyzingPlot, openAlerts, started>>
    /\ UNCHANGED <<context, clientVars, normVars, walkVars, mktVars>>

\* generateFarmingPlan resolves: lines 490, 503
planResolves(c, plan) ==
    /\ c \in planCalls /\ c.requested
    /\ planCalls' = planCalls \ {c}
    /\ aiPlan' = plan
    /\ loading' = FALSE
    /\ wizLast' = Before("planResolved", c.id)
    /\ UNCHANGED <<wizardStep, farmBoundary, selectedCrop, weather, saving,
                   isAnalyzingPlot, openAlerts, started>>
    /\ UNCHANGED <<context, clientVars, normVars, walkVars, mktVars>>

\* a failure that opens no dialog
planRejectsSilently(c, message) ==
    /\ c \in planCalls /\ c.requested
    /\ planCalls' = planCalls \ {c}
    /\ loading' = FALSE
    /\ wizLast' = Before("planRejected", c.id)
    /\ UNCHANGED <<wizardStep, farmBoundary, selectedCrop, aiPlan, weather, saving,
                   isAnalyzingPlot, openAlerts, started>>
    /\ UNCHANGED <<context, clientVars, normVars, walkVars, mktVars>>

\* generateFarmingPlan rejects: lines 491-503
planRejects(c, message) ==
    /\ c \in planCalls /\ c.requested
    /\ planCalls' = planCalls \ {c}
    /\ openAlerts' = Append(openAlerts,
                            [kind |-> "failed", message |-> alertMessage(message)])
    /\ loading' = FALSE
    /\ wizLast' = Before("planRejected", message)
    /\ UNCHANGED <<wizardStep, farmBoundary, selectedCrop, aiPlan, weather, saving,
                   isAnalyzingPlot, started>>
    /\ UNCHANGED <<context, clientVars, normVars, walkVars, mktVars>>

\* savePlan up to its await (lines 507-521); the button is disabled while
\* saving (line 1076)
savePlan ==
    /\ Interactive /\ wizardStep = 3
    /\ ~saving
    /\ IF selectedCrop = ""
       THEN \* selectedCrop.id throws before the await: lines 510, 534-537
            /\ openAlerts' = Append(openAlerts,
                                    [kind |-> "saveFailed", message |-> "unavailable"])
            /\ UNCHANGED saving
       ELSE /\ saving' = TRUE
            /\ UNCHANGED openAlerts
    /\ wizLast' = Before("savePlan", 0)
    /\ UNCHANGED <<wizardStep, farmBoundary, selectedCrop, aiPlan, weather, loading,
                   isAnalyzingPlot, planCalls, started>>
    /\ UNCHANGED <<context, clientVars, normVars, walkVars, mktVars>>

\* savePlantingPlan settles: lines 522-538
saveSettles(ok) ==
    /\ saving
    /\ saving' = FALSE
    /\ openAlerts' = Append(openAlerts,
                            IF ok THEN [kind |-> "saved", message |-> ""]
                            ELSE [kind |-> "saveFailed", message |-> "unavailable"])
    /\ wizLast' = Before("saveSettled", 0)
    /\ UNCHANGED <<wizardStep, farmBoundary, selectedCrop, aiPlan, weather, loading,
                   isAnalyzingPlot, planCalls, started>>
    /\ UNCHANGED <<context, clientVars, normVars, walkVars, mktVars>>

\* a button of the oldest open dialog: OK of "Plan Generation Failed"
\* (line 500), OK of "Plan Saved!" (lines 525-531), Clear or Cancel of
\* "Clear Boundary" (lines 445-446), OK of "Save Failed" (line 535)
answerAlert(confirm) ==
    /\ openAlerts # <<>>
    /\ openAlerts' = Tail(openAlerts)
    /\ wizLast' = Before(Head(openAlerts).kind, 0)
    /\ Head(openAlerts).kind # "clear" => confirm
    /\ wizardStep' = CASE Head(openAlerts).kind = "failed" -> 1
                       [] Head(openAlerts).kind = "saved" -> 0
                       [] OTHER -> wizardStep
    /\ farmBoundary' = IF Head(openAlerts).kind = "saved"
                          \/ (Head(openAlerts).kind = "clear" /\ confirm)
                       THEN 0 ELSE farmBoundary
    /\ selectedCrop' = IF Head(openAlerts).kind = "saved" THEN "" ELSE selectedCrop
    /\ aiPlan' = IF Head(openAlerts).kind = "saved" THEN "" ELSE aiPlan
    /\ weather' = IF Head(openAlerts).kind = "saved" THEN "none" ELSE weather
    /\ UNCHANGED <<loading, saving, isAnalyzingPlot, planCalls, started>>
    /\ UNCHANGED <<context, clientVars, normVars, walkVars, mktVars>>

(***************************************************************************)
(* The market: one listing and one group sale in the store, the farmers'   *)
(* and buyers' screens with the lists they last loaded, and the calls of   *)
(* marketService.js, each store operation a step of its own.               *)
(***************************************************************************)
MaxQuantity == 2

Farmers == {"f1", "f2", "f3"}
Buyers == {"b1", "b2"}
Owner == "f1"
Quantities == 1..MaxQuantity
Targets == {MaxQuantity + 1, 2 * MaxQuantity}

NoSale == [status |-> "none", currentQuantity |-> 0, targetQuantity |-> 0, contributors |-> {}]

\* what load() leaves on a user's screen: the listing with its Buy or
\* Cancel button, the sale with its Join button (MarketScreen.js lines
\* 70-80, 234, 244-272; getActiveListings, getMyListings, getOpenUnitSales)
shown(u) ==
    (IF listing = "active" /\ (u \in Buyers \/ u = Owner) THEN {<<u, "listing">>} ELSE {})
    \cup
    (IF /\ u \in Farmers /\ sale.status = "open" /\ u \notin joined
        /\ \A c \in sale.contributors : c.farmerId # u
     THEN {<<u, "sale">>} ELSE {})

load(u) ==
    /\ listed' = (listed \ ({u} \X {"listing", "sale"})) \cup shown(u)
    /\ listed' # listed
    /\ UNCHANGED <<listing, buyCalls, orders, sale, joinCalls, joined>>
    /\ UNCHANGED <<context, clientVars, normVars, walkVars, wizVars>>

\* createListing (lines 18-26), then load() of the owner's screen
createListing ==
    /\ listing = "none"
    /\ listing' = "active"
    /\ listed' = listed \cup {<<Owner, "listing">>}
    /\ UNCHANGED <<buyCalls, orders, sale, joinCalls, joined>>
    /\ UNCHANGED <<context, clientVars, normVars, walkVars, wizVars>>

\* cancelListing (lines 44-46) from the dialog of handleCancelListing,
\* then load()
cancelListing ==
    /\ <<Owner, "listing">> \in listed
    /\ listing' = "cancelled"
    /\ listed' = listed \ {<<Owner, "listing">>}
    /\ UNCHANGED <<buyCalls, orders, sale, joinCalls, joined>>
    /\ UNCHANGED <<context, clientVars, normVars, walkVars, wizVars>>

\* Confirm of handleBuy (BuyerMarketScreen.js lines 157-164): the call of
\* buyListing starts on the item as it was loaded
handleBuy(b) ==
    /\ <<b, "listing">> \in listed
    /\ \A c \in buyCalls : c.buyerId # b
    /\ buyCalls' = buyCalls \cup {[buyerId |-> b, pc |-> "updateDoc", found |-> ""]}
    /\ UNCHANGED <<listing, listed, orders, sale, joinCalls, joined>>
    /\ UNCHANGED <<context, clientVars, normVars, walkVars, wizVars>>

\* buyListing, line 49; found keeps the status the update replaced
buyListingUpdate(c) ==
    /\ c \in buyCalls /\ c.pc = "updateDoc"
    /\ listing' = "sold"
    /\ buyCalls' = (buyCalls \ {c}) \cup {[c EXCEPT !.pc = "addDoc", !.found = listing]}
    /\ UNCHANGED <<listed, orders, sale, joinCalls, joined>>
    /\ UNCHANGED <<context, clientVars, normVars, walkVars, wizVars>>

\* buyListing, lines 50-59, then load() of the buyer's screen (line 168)
buyListingAddOrder(c) ==
    /\ c \in buyCalls /\ c.pc = "addDoc"
    /\ orders' = orders \cup
          {[buyerId |-> c.buyerId, listingId |-> "listing", type |-> "individual",
            status |-> "confirmed", found |-> c.found]}
    /\ buyCalls' = buyCalls \ {c}
    /\ listed' = (listed \ {<<c.buyerId, "listing">>}) \cup
                 (IF listing = "active" THEN {<<c.buyerId, "listing">>} ELSE {})
    /\ UNCHANGED <<listing, sale, joinCalls, joined>>
    /\ UNCHANGED <<context, clientVars, normVars, walkVars, wizVars>>

\* submitUnitSale: createUnitSale (lines 64-76), markInventoryListed, load()
createUnitSale(f, initialQuantity, targetQuantity) ==
    /\ sale.status = "none"
    /\ f \notin joined
    /\ sale' = [status |-> "open", currentQuantity |-> initialQuantity,
                targetQuantity |-> targetQuantity,
                contributors |-> {[farmerId |-> f, quantity |-> initialQuantity]}]
    /\ joined' = joined \cup {f}
    /\ UNCHANGED <<listing, listed, buyCalls, orders, joinCalls>>
    /\ UNCHANGED <<context, clientVars, normVars, walkVars, wizVars>>

\* submitJoin up to the call of joinUnitSale (MarketScreen.js lines 198-205)
submitJoin(f, quantity) ==
    /\ <<f, "sale">> \in listed
    /\ \A c \in joinCalls : c.farmerId # f
    /\ joinCalls' = joinCalls \cup
          {[farmerId |-> f, quantity |-> quantity, pc |-> "getDoc",
            currentQuantity |-> 0, targetQuantity |-> 0]}
    /\ UNCHANGED <<listing, listed, buyCalls, orders, sale, joined>>
    /\ UNCHANGED <<context, clientVars, normVars, walkVars, wizVars>>

\* joinUnitSale, lines 95-99: the sale as read
joinUnitSaleRead(c) ==
    /\ c \in joinCalls /\ c.pc = "getDoc"
    /\ joinCalls' = (joinCalls \ {c}) \cup
          {[c EXCEPT !.pc = "updateDoc", !.currentQuantity = sale.currentQuantity,
                     !.targetQuantity = sale.targetQuantity]}
    /\ UNCHANGED <<listing, listed, buyCalls, orders, sale, joined>>
    /\ UNCHANGED <<context, clientVars, normVars, walkVars, wizVars>>

\* lines 100-101
newQuantity(c) == c.currentQuantity + c.quantity
newStatus(c) == IF newQuantity(c) >= c.targetQuantity THEN "active" ELSE "open"

\* joinUnitSale, lines 103-107: arrayUnion adds to what the store holds,
\* the two other fields are overwritten with what was computed from the read
joinUnitSaleWrite(c) ==
    /\ c \in joinCalls /\ c.pc = "updateDoc"
    /\ sale' = [sale EXCEPT
                  !.contributors = @ \cup {[farmerId |-> c.farmerId, quantity |-> c.quantity]},
                  !.currentQuantity = newQuantity(c),
                  !.status = newStatus(c)]
    /\ joinCalls' = (joinCalls \ {c}) \cup {[c EXCEPT !.pc = "markInventoryListed"]}
    /\ UNCHANGED <<listing, listed, buyCalls, orders, joined>>
    /\ UNCHANGED <<context, clientVars, normVars, walkVars, wizVars>>

\* the rest of submitJoin (MarketScreen.js lines 206-209)
submitJoinDone(c) ==
    /\ c \in joinCalls /\ c.pc = "markInventoryListed"
    /\ joinCalls' = joinCalls \ {c}
    /\ joined' = joined \cup {c.farmerId}
    /\ listed' = listed \ {<<c.farmerId, "sale">>}
    /\ UNCHANGED <<listing, buyCalls, orders, sale>>
    /\ UNCHANGED <<context, clientVars, normVars, walkVars, wizVars>>


(***************************************************************************)
(* Specifications: one call of generateFarmingPlan; the normalizer on one  *)
(* text; one walkthrough of a plan.  Each leaves the others' variables at  *)
(* rest.                                                                   *)
(***************************************************************************)
InitClient ==
    /\ context = CallContext
    /\ apiKey \in ApiKeys
    /\ envModel \in EnvModels
    /\ pc = "called"
    /\ modelsToTry = <<>>
    /\ modelIdx = 0
    /\ requests = <<>>
    /\ inFlight = 0
    /\ responses = <<>>
    /\ lastError = Null
    /\ outcome = Pending
    /\ nPc = "off" /\ rawText = "" /\ normalized = NotRun /\ screenPlan = NotRun
    /\ renormalized = NotRun
    /\ wPc = "off" /\ sections = <<>> /\ completedActions = <<>>
    /\ currentTaskIdx = 0 /\ calls = 0
    /\ timers = <<>> /\ marked = {} /\ lastOp = NoOp
    /\ wizardStep = 0 /\ farmBoundary = 0 /\ selectedCrop = "" /\ aiPlan = ""
    /\ weather = "none" /\ loading = FALSE /\ saving = FALSE /\ isAnalyzingPlot = FALSE
    /\ openAlerts = <<>> /\ planCalls = {} /\ started = 0 /\ wizLast = NoWizOp
    /\ listing = "none" /\ listed = {} /\ buyCalls = {} /\ orders = {}
    /\ sale = NoSale /\ joinCalls = {} /\ joined = {}

NextClient ==
    \/ Enter
    \/ Fetch
    \/ \E m \in RejectMessages : FetchRejected(m)
    \/ \E status \in ErrorStatuses, body \in ErrorBodies, reread \in BOOLEAN :
           ErrorResponse(status, body, reread)
    \/ \E status \in OkStatuses, body \in OkBodies : OkResponse(status, body)
    \/ Exhausted

SpecClient == InitClient /\ [][NextClient]_vars

InitNormalize ==
    /\ context \in Contexts
    /\ nPc = "ready"
    /\ rawText \in RawTexts
    /\ normalized = NotRun
    /\ screenPlan = NotRun
    /\ renormalized = NotRun
    /\ apiKey = "" /\ envModel = "" /\ pc = "off" /\ modelsToTry = <<>> /\ modelIdx = 0
    /\ requests = <<>> /\ inFlight = 0 /\ responses = <<>> /\ lastError = Null
    /\ outcome = Pending
    /\ wPc = "off" /\ sections = <<>> /\ completedActions = <<>>
    /\ currentTaskIdx = 0 /\ calls = 0
    /\ timers = <<>> /\ marked = {} /\ lastOp = NoOp
    /\ wizardStep = 0 /\ farmBoundary = 0 /\ selectedCrop = "" /\ aiPlan = ""
    /\ weather = "none" /\ loading = FALSE /\ saving = FALSE /\ isAnalyzingPlot = FALSE
    /\ openAlerts = <<>> /\ planCalls = {} /\ started = 0 /\ wizLast = NoWizOp
    /\ listing = "none" /\ listed = {} /\ buyCalls = {} /\ orders = {}
    /\ sale = NoSale /\ joinCalls = {} /\ joined = {}

NextNormalize ==
    \/ Normalize
    \/ ScreenParse

SpecNormalize == InitNormalize /\ [][NextNormalize]_vars

InitRoundTrip ==
    /\ context \in Contexts
    /\ nPc = "ready"
    /\ rawText \in RoundTripTexts
    /\ normalized = NotRun
    /\ screenPlan = NotRun
    /\ renormalized = NotRun
    /\ apiKey = "" /\ envModel = "" /\ pc = "off" /\ modelsToTry = <<>> /\ modelIdx = 0
    /\ requests = <<>> /\ inFlight = 0 /\ responses = <<>> /\ lastError = Null
    /\ outcome = Pending
    /\ wPc = "off" /\ sections = <<>> /\ completedActions = <<>>
    /\ currentTaskIdx = 0 /\ calls = 0
    /\ timers = <<>> /\ marked = {} /\ lastOp = NoOp
    /\ wizardStep = 0 /\ farmBoundary = 0 /\ selectedCrop = "" /\ aiPlan = ""
    /\ weather = "none" /\ loading = FALSE /\ saving = FALSE /\ isAnalyzingPlot = FALSE
    /\ openAlerts = <<>> /\ planCalls = {} /\ started = 0 /\ wizLast = NoWizOp
    /\ listing = "none" /\ listed = {} /\ buyCalls = {} /\ orders = {}
    /\ sale = NoSale /\ joinCalls = {} /\ joined = {}

NextRoundTrip ==
    \/ Normalize
    \/ Renormalize
    \/ ScreenParseReturned

SpecRoundTrip == InitRoundTrip /\ [][NextRoundTrip]_vars

\* a plan has just been set: the reset effect (lines 278-281) has run
InitWalkthrough ==
    /\ context = CallContext
    /\ wPc = "walking"
    /\ sections \in SectionLayouts
    /\ completedActions = <<>>
    /\ currentTaskIdx = 0
    /\ calls = 0
    /\ timers = <<>> /\ marked = {} /\ lastOp = NoOp
    /\ wizardStep = 0 /\ farmBoundary = 0 /\ selectedCrop = "" /\ aiPlan = ""
    /\ weather = "none" /\ loading = FALSE /\ saving = FALSE /\ isAnalyzingPlot = FALSE
    /\ openAlerts = <<>> /\ planCalls = {} /\ started = 0 /\ wizLast = NoWizOp
    /\ listing = "none" /\ listed = {} /\ buyCalls = {} /\ orders = {}
    /\ sale = NoSale /\ joinCalls = {} /\ joined = {}
    /\ apiKey = "" /\ envModel = "" /\ pc = "off" /\ modelsToTry = <<>> /\ modelIdx = 0
    /\ requests = <<>> /\ inFlight = 0 /\ responses = <<>> /\ lastError = Null
    /\ outcome = Pending
    /\ nPc = "off" /\ rawText = "" /\ normalized = NotRun /\ screenPlan = NotRun
    /\ renormalized = NotRun

NextWalkthrough == completeAndAdvance

SpecWalkthrough == InitWalkthrough /\ [][NextWalkthrough]_vars

\* the screen as mounted: aiPlan is '' (line 239), nothing is completed
\* (line 261), the cursor is 0 (line 262)
InitScreen ==
    /\ context = CallContext
    /\ wPc = "screen"
    /\ sections = <<>>
    /\ completedActions = <<>>
    /\ currentTaskIdx = 0
    /\ calls = 0
    /\ timers = <<>> /\ marked = {} /\ lastOp = NoOp
    /\ wizardStep = 0 /\ farmBoundary = 0 /\ selectedCrop = "" /\ aiPlan = ""
    /\ weather = "none" /\ loading = FALSE /\ saving = FALSE /\ isAnalyzingPlot = FALSE
    /\ openAlerts = <<>> /\ planCalls = {} /\ started = 0 /\ wizLast = NoWizOp
    /\ listing = "none" /\ listed = {} /\ buyCalls = {} /\ orders = {}
    /\ sale = NoSale /\ joinCalls = {} /\ joined = {}
    /\ apiKey = "" /\ envModel = "" /\ pc = "off" /\ modelsToTry = <<>> /\ modelIdx = 0
    /\ requests = <<>> /\ inFlight = 0 /\ responses = <<>> /\ lastError = Null
    /\ outcome = Pending
    /\ nPc = "off" /\ rawText = "" /\ normalized = NotRun /\ screenPlan = NotRun
    /\ renormalized = NotRun

NextScreen ==
    \/ \E plan \in ScreenPlans : generatePlan(plan)
    \/ savePlanDismissed
    \/ toggleCurrentTask
    \/ timerFires
    \/ completeAndAdvancePressed
    \/ \E nextIdx \in GoToArgs : goToTaskPressed(nextIdx)

SpecScreen == InitScreen /\ [][NextScreen]_vars

\* a timer that was set runs: setTimeout(..., 180) is never cleared
SpecScreenTimed == SpecScreen /\ WF_vars(timerFires)

\* the wizard as mounted (lines 236-242)
InitWizard ==
    /\ context = CallContext
    /\ wizardStep = 0 /\ farmBoundary = 0 /\ selectedCrop = "" /\ aiPlan = ""
    /\ weather = "none" /\ loading = FALSE /\ saving = FALSE /\ isAnalyzingPlot = FALSE
    /\ openAlerts = <<>> /\ planCalls = {} /\ started = 0 /\ wizLast = NoWizOp
    /\ apiKey = "" /\ envModel = "" /\ pc = "off" /\ modelsToTry = <<>> /\ modelIdx = 0
    /\ requests = <<>> /\ inFlight = 0 /\ responses = <<>> /\ lastError = Null
    /\ outcome = Pending
    /\ nPc = "off" /\ rawText = "" /\ normalized = NotRun /\ screenPlan = NotRun
    /\ renormalized = NotRun
    /\ wPc = "off" /\ sections = <<>> /\ completedActions = <<>>
    /\ currentTaskIdx = 0 /\ calls = 0
    /\ timers = <<>> /\ marked = {} /\ lastOp = NoOp
    /\ listing = "none" /\ listed = {} /\ buyCalls = {} /\ orders = {}
    /\ sale = NoSale /\ joinCalls = {} /\ joined = {}

NextWizard ==
    \/ handleMapPress
    \/ undoLastPoint
    \/ clearBoundary
    \/ proceedToStep2
    \/ analysisDone
    \/ \E name \in CropNames : selectCrop(name)
    \/ \E b \in StepButtons : setStep(b[1], b[2])
    \/ generatePlanPressed
    \/ \E c \in planCalls : \E o \in WeatherOutcomes : weatherSettles(c, o)
    \/ \E c \in planCalls : \E plan \in PlanTexts : planResolves(c, plan)
    \/ \E c \in planCalls : \E message \in PlanErrors : planRejects(c, message)
    \/ savePlan
    \/ \E ok \in BOOLEAN : saveSettles(ok)
    \/ \E confirm \in BOOLEAN : answerAlert(confirm)

SpecWizard == InitWizard /\ [][NextWizard]_vars

\* an empty store and screens that have loaded nothing
InitMarket ==
    /\ context = CallContext
    /\ listing = "none" /\ listed = {} /\ buyCalls = {} /\ orders = {}
    /\ sale = NoSale /\ joinCalls = {} /\ joined = {}
    /\ wizardStep = 0 /\ farmBoundary = 0 /\ selectedCrop = "" /\ aiPlan = ""
    /\ weather = "none" /\ loading = FALSE /\ saving = FALSE /\ isAnalyzingPlot = FALSE
    /\ openAlerts = <<>> /\ planCalls = {} /\ started = 0 /\ wizLast = NoWizOp
    /\ apiKey = "" /\ envModel = "" /\ pc = "off" /\ modelsToTry = <<>> /\ modelIdx = 0
    /\ requests = <<>> /\ inFlight = 0 /\ responses = <<>> /\ lastError = Null
    /\ outcome = Pending
    /\ nPc = "off" /\ rawText = "" /\ normalized = NotRun /\ screenPlan = NotRun
    /\ renormalized = NotRun
    /\ wPc = "off" /\ sections = <<>> /\ completedActions = <<>>
    /\ currentTaskIdx = 0 /\ calls = 0
    /\ timers = <<>> /\ marked = {} /\ lastOp = NoOp

NextMarket ==
    \/ \E u \in Farmers \cup Buyers : load(u)
    \/ createListing
    \/ cancelListing
    \/ \E b \in Buyers : handleBuy(b)
    \/ \E c \in buyCalls : buyListingUpdate(c)
    \/ \E c \in buyCalls : buyListingAddOrder(c)
    \/ \E f \in Farmers : \E q \in Quantities : \E t \in Targets : createUnitSale(f, q, t)
    \/ \E f \in Farmers : \E q \in Quantities : submitJoin(f, q)
    \/ \E c \in joinCalls : joinUnitSaleRead(c)
    \/ \E c \in joinCalls : joinUnitSaleWrite(c)
    \/ \E c \in joinCalls : submitJoinDone(c)

SpecMarket == InitMarket /\ [][NextMarket]_vars

(***************************************************************************)
(* Properties of generateFarmingPlan, read off the log of requests sent     *)
(* and answers received                                                     *)
(***************************************************************************)
Done == pc = "done"
Failed == Done /\ outcome.kind = "rejected"

IsRejection(r) == r.kind = "rejected"
IsErrorResponse(r) == r.kind = "http" /\ ~Ok(r.status)
IsOkResponse(r) == r.kind = "http" /\ Ok(r.status)

\* the body of the answer holds the keyword, in any case
MentionsModel(body) == Contains(toLowerCase(body), "model")
ModelUnavailable(r) == IsErrorResponse(r) /\ r.status = 404 /\ MentionsModel(r.body)
OtherError(r) == IsErrorResponse(r) /\ ~(r.status = 404 /\ MentionsModel(r.body))

\* the joined text segments of an answer's body, "" when it is no JSON
BodyText(body) == IF JSONparse(body).ok THEN ResponseText(JSONparse(body).v) ELSE ""
SuccessWithText(r) == IsOkResponse(r) /\ BodyText(r.body) # ""
SuccessWithoutText(r) ==
    IsOkResponse(r) /\ JSONparse(r.body).ok /\ BodyText(r.body) = ""

\* the message names the HTTP status and the model that was asked
CarriesStatusAndModel(msg, status, model) ==
    /\ Contains(msg, "(" \o NatToStr(status) \o ")")
    /\ Contains(msg, "on model " \o model \o ".")

\* the message is the error of the candidate `model`, whose answer was r
IsErrorOf(msg, r, model) ==
    IF IsRejection(r) THEN msg = NetworkErrorMessage(r.message)
    ELSE IF IsErrorResponse(r) THEN CarriesStatusAndModel(msg, r.status, model)
    ELSE IF ~JSONparse(r.body).ok THEN msg = InvalidJsonMessage
    ELSE BodyText(r.body) = "" /\ msg = EmptyResponseMessage(model)

AllTried == Done /\ modelsToTry # <<>> /\ Len(requests) = Len(modelsToTry)
LastResponse == responses[Len(responses)]
LastModel == requests[Len(requests)]
DistinctCandidates == {fallbackModels[i] : i \in 1..Len(fallbackModels)} \ {""}

\* C1: when the first candidate answers 404 with a body naming the model and
\* the second answers successfully with non-empty text, the call resolves
\* (with the plan built from that text) after exactly those two requests:
\* none for the third candidate, none repeated.
C1_FallbackResolvesWithSecond ==
    ( /\ Done
      /\ Len(responses) >= 2
      /\ ModelUnavailable(responses[1])
      /\ SuccessWithText(responses[2]) )
    => /\ outcome.kind = "resolved"
       /\ requests = SubSeq(modelsToTry, 1, 2)

\* C2: an answer that is not a success and is not (404 with a body holding
\* "model") ends the call at once: no later request, and the call fails with
\* a message carrying the status and the model's name.
C2_OtherErrorsFailAtOnce ==
    \A i \in 1..Len(responses) :
        OtherError(responses[i])
        => /\ Len(requests) = i
           /\ Failed
           /\ CarriesStatusAndModel(outcome.message, responses[i].status, requests[i])

\* C3: a fetch() that rejects, at whatever position in the list, ends the
\* call at once with the network error: it is the last request ever sent.
C3_TransportFailureIsFinal ==
    \A i \in 1..Len(responses) :
        IsRejection(responses[i])
        => /\ Done
           /\ i = Len(responses)
           /\ Len(requests) = i
           /\ outcome = Rejected("Error", NetworkErrorMessage(responses[i].message))
           /\ StartsWithAt(outcome.message, "Network error while calling Claude: ", 1)

\* C3 happens: the second candidate's fetch() rejected, a third was left
C3_Witness ==
    /\ Len(responses) = 2
    /\ IsRejection(responses[2])
    /\ Len(modelsToTry) > 2
    /\ Failed

\* C4: a successful answer without text from a candidate that is not the last
\* does not end the call: a finished call has asked a later candidate.
C4_EmptyTextContinues ==
    \A i \in 1..Len(responses) :
        (SuccessWithoutText(responses[i]) /\ i < Len(modelsToTry) /\ Done)
        => Len(requests) > i

\* C5: when every candidate was asked and the last one did not succeed, the
\* call fails with the error of that last candidate; the generic message is
\* used only when no error was recorded; and a failure carrying a 404 of some
\* candidate is that of the last candidate of the list.
C5_LastCandidatesError ==
    /\ (AllTried /\ ~SuccessWithText(LastResponse))
       => /\ Failed
          /\ IsErrorOf(outcome.message, LastResponse, LastModel)
    /\ (Failed /\ outcome.message = AllFailedMessage) => Falsy(lastError)
    /\ \A i \in 1..Len(responses) :
         ( /\ Failed
           /\ IsErrorResponse(responses[i])
           /\ responses[i].status = 404
           /\ CarriesStatusAndModel(outcome.message, 404, requests[i]) )
         => i = Len(modelsToTry)

\* C5 happens: every candidate answered 404 and the call failed with the
\* last one's message
C5_Witness ==
    /\ AllTried
    /\ Len(responses) = 3
    /\ \A i \in 1..3 : ModelUnavailable(responses[i])
    /\ Failed
    /\ CarriesStatusAndModel(outcome.message, 404, modelsToTry[3])

\* C6: with an empty key no request is ever sent, and the call fails with
\* the missing-key error.
C6_MissingKeySendsNothing ==
    apiKey = ""
    => /\ requests = <<>>
       /\ inFlight = 0
       /\ responses = <<>>
       /\ Done => outcome = Rejected("Error", MissingKeyMessage)

\* C6 happens: a call without key has finished
C6_Witness == apiKey = "" /\ Failed /\ pc = "done" /\ requests = <<>>

\* C7: requests go out one at a time, in the order of a list without
\* repetitions that starts with the configured model; no candidate is asked
\* twice; there are never more requests than distinct candidates, and a call
\* that has not finished can always take its next step.
C7_SequentialFallback ==
    /\ inFlight \in {0, 1}
    /\ (inFlight = 1) <=> (pc = "fetching")
    /\ Len(responses) = Len(requests) - inFlight
    /\ Len(requests) <= Len(modelsToTry)
    /\ requests = SubSeq(modelsToTry, 1, Len(requests))
    /\ \A i, j \in 1..Len(requests) : requests[i] = requests[j] => i = j
    /\ \A i, j \in 1..Len(modelsToTry) : modelsToTry[i] = modelsToTry[j] => i = j
    /\ modelsToTry # <<>> => modelsToTry[1] = CLAUDE_MODEL
    /\ Len(requests) <= Cardinality(DistinctCandidates)
    /\ Done \/ ENABLED NextClient

\* C7 happens: the configured model is also in the built-in list, and the
\* call has asked every distinct candidate once
C7_Witness ==
    /\ envModel = Sonnet46
    /\ Done
    /\ Len(requests) = 3
    /\ requests = <<Sonnet46, Haiku, Sonnet4>>

(***************************************************************************)
(* Properties of the normalizer                                            *)
(***************************************************************************)
HasRun == nPc \in {"normalized", "parsed"}
HasReturned == HasRun /\ ~normalized.threw

\* the sanitized task of each action of a raw step, then those not empty
RawActions(step) == ArrayOrEmpty(Get(step, "actions"))
SanitizedTasks(acts) == [i \in 1..Len(acts) |-> cleanText(Get(acts[i], "task"))]
TasksOf(step) == SelectSeq(SanitizedTasks(RawActions(step)), NonEmpty)

HasTasks(q) == q # <<>>
\* for each raw step with a task, in order, its tasks in order
ExpectedTasks(rawSteps) ==
    SelectSeq([i \in 1..Len(rawSteps) |-> TasksOf(rawSteps[i])], HasTasks)

\* the tasks of the steps of a plan
TasksOfStep(step) == [j \in 1..Len(step.actions) |-> step.actions[j].task]
OutputTasks(steps) == [i \in 1..Len(steps) |-> TasksOfStep(steps[i])]

NoEmptyStep(steps) ==
    \A i \in 1..Len(steps) :
        /\ Len(steps[i].actions) >= 1
        /\ \A j \in 1..Len(steps[i].actions) : steps[i].actions[j].task # ""

\* C8: on every text normalizeStructuredPlan returns (it never throws), and
\* the plan it returns has at least one step, each with at least one action.
C8_NormalizationTotal ==
    HasRun
    => /\ ~normalized.threw
       /\ Len(normalized.plan.steps) >= 1
       /\ \A i \in 1..Len(normalized.plan.steps) :
              Len(normalized.plan.steps[i].actions) >= 1

\* C9 as stated: for a text that holds raw steps, the steps of the plan
\* normalizeStructuredPlan returns are exactly the raw steps with a non-empty
\* sanitized task, in order, each with exactly those actions in order; no
\* step is without action, no task empty.
C9_StepsAreTheKeptRawSteps ==
    (HasReturned /\ Len(RawSteps(extractJsonObject(rawText))) >= 1)
    => /\ OutputTasks(normalized.plan.steps)
              = ExpectedTasks(RawSteps(extractJsonObject(rawText)))
       /\ NoEmptyStep(normalized.plan.steps)

\* C9, amended: when some raw step has a non-empty sanitized task, the steps
\* of the returned plan are exactly those raw steps, in order, each with
\* exactly its actions of non-empty task, in order; when none has, the plan
\* is the fallback plan built from the text.  Either way no step is without
\* action and no task is empty.  The plan parseStructuredPlan returns, when
\* it returns one, has exactly the kept raw steps too.
C9_KeptRawStepsOrFallback ==
    /\ HasReturned
       => /\ IF ExpectedTasks(RawSteps(extractJsonObject(rawText))) # <<>>
             THEN OutputTasks(normalized.plan.steps)
                      = ExpectedTasks(RawSteps(extractJsonObject(rawText)))
             ELSE normalized.plan = buildFallbackPlan(rawText, context)
          /\ NoEmptyStep(normalized.plan.steps)
    /\ (nPc = "parsed" /\ ~screenPlan.isNull)
       => /\ OutputTasks(screenPlan.plan.steps)
                 = ExpectedTasks(RawSteps(extractLikelyJson(rawText)))
          /\ NoEmptyStep(screenPlan.plan.steps)

\* C9 happens: of three raw steps the middle one has no task left and is
\* dropped, and a kept step has lost an action
C9_Witness ==
    /\ nPc = "parsed"
    /\ HasReturned
    /\ ~screenPlan.isNull
    /\ Len(RawSteps(extractJsonObject(rawText))) = 3
    /\ Len(normalized.plan.steps) = 2
    /\ Len(screenPlan.plan.steps) = 2
    /\ Len(RawActions(RawSteps(extractJsonObject(rawText))[2])) >= 1
    /\ Len(TasksOf(RawSteps(extractJsonObject(rawText))[2])) = 0

(***************************************************************************)
(* Properties of the walkthrough                                           *)
(***************************************************************************)
AllKeys ==
    {getActionKey(walkthroughTasks[i].sectionIdx, walkthroughTasks[i].actionIdx) :
        i \in 1..totalTaskCount}
CheckedKeys == {k \in DOMAIN completedActions : completedActions[k]}

\* C10: from a fresh plan of N >= 1 actions, after k <= N calls of
\* completeAndAdvance the first k tasks are complete and the cursor is at
\* min(k, N-1); after N calls progressPercent is 100 and the cursor is N-1,
\* never N; and any further call changes neither cursor nor completion set.
C10_WalkthroughProgress ==
    /\ [](totalTaskCount >= 1 /\ wPc = "walking"
          => /\ currentTaskIdx = Min({calls, totalTaskCount - 1})
             /\ currentTaskIdx # totalTaskCount
             /\ Cardinality(CheckedKeys) = Min({calls, totalTaskCount})
             /\ calls >= totalTaskCount
                => /\ progressPercent = 100
                   /\ currentTaskIdx = totalTaskCount - 1
                   /\ CheckedKeys = AllKeys)
    /\ [][(totalTaskCount >= 1 /\ wPc = "walking" /\ calls >= totalTaskCount)
          => UNCHANGED <<currentTaskIdx, completedActions>>]_vars

\* C10 happens: a plan of several sections, one call more than it has tasks
C10_Witness ==
    /\ wPc = "walking"
    /\ Len(sections) >= 2
    /\ totalTaskCount >= 3
    /\ calls = totalTaskCount + 1
    /\ progressPercent = 100
    /\ currentTaskIdx = totalTaskCount - 1

(***************************************************************************)
(* Properties of extractJsonObject                                         *)
(***************************************************************************)
\* JSON.parse(t) returns, and what it returns is truthy
ParsesTruthy(t) == JSONparse(t).ok /\ ~Falsy(JSONparse(t).v)
FencedPart(t) == trim(FencedInterior(trim(t)))
HasBraceSpan(t) ==
    /\ indexOf(trim(t), "{", 1) >= 1
    /\ lastIndexOf(trim(t), "}") > indexOf(trim(t), "{", 1)
BraceSpan(t) == SubSeq(trim(t), indexOf(trim(t), "{", 1), lastIndexOf(trim(t), "}"))

\* the value of the first attempt that parses, the attempts in the order
\* whole text, fenced interior, brace span, brace span without trailing commas
FirstParsing(t) ==
    IF ParsesTruthy(trim(t)) THEN JSONparse(trim(t)).v
    ELSE IF FencedInterior(trim(t)) # "" /\ ParsesTruthy(FencedPart(t))
         THEN JSONparse(FencedPart(t)).v
    ELSE IF HasBraceSpan(t) /\ ParsesTruthy(BraceSpan(t)) THEN JSONparse(BraceSpan(t)).v
    ELSE IF HasBraceSpan(t) /\ ParsesTruthy(StripTrailingCommas(BraceSpan(t)))
         THEN JSONparse(StripTrailingCommas(BraceSpan(t))).v
    ELSE Null

\* C17: extractJsonObject returns what the first parsing attempt gives, the
\* attempts being (a) the trimmed text, (b) the interior of a fenced json
\* block, (c) the first "{" to the last "}", retried without trailing commas.
\* So prose around a fenced plan gives the fenced plan, a whole text that
\* parses wins over a fence inside it, a fence wins over later braces, and a
\* plan written with trailing commas normalizes to its step and its action.
C17_ExtractionOrder ==
    HasRun
    => /\ IF FirstParsing(rawText) = Null THEN Falsy(extractJsonObject(rawText))
          ELSE extractJsonObject(rawText) = FirstParsing(rawText)
       /\ rawText = FencedProseText
          => /\ extractJsonObject(rawText) = JSONparse(GoodPlanText).v
             /\ OutputTasks(normalized.plan.steps) = <<(<<"Till soil">>)>>
       /\ rawText = FenceInStringText
          => Get(extractJsonObject(rawText), "x") = Str("~~~json 5 ~~~")
       /\ rawText = FenceBeforeBracesText => extractJsonObject(rawText) = Num(7)
       /\ rawText = TrailingCommaText
          => /\ Len(normalized.plan.steps) = 1
             /\ normalized.plan.steps[1].title = "Prep"
             /\ OutputTasks(normalized.plan.steps) = <<(<<"Till soil">>)>>
       /\ rawText = FencedTrailingCommaText
          => OutputTasks(normalized.plan.steps) = <<(<<"Hoe">>)>>

\* C17 happens: the plan with trailing commas has been normalized to its step
C17_Witness ==
    /\ HasReturned
    /\ rawText = TrailingCommaText
    /\ ~ParsesTruthy(BraceSpan(rawText))
    /\ Len(normalized.plan.steps) = 1

(***************************************************************************)
(* Properties of the fields of a normalized plan                           *)
(***************************************************************************)
\* summary.expected_yield_kg as the text gives it
RawYield == Get(Get(extractJsonObject(rawText), "summary"), "expected_yield_kg")
\* it is missing, null, or no number
YieldNotGiven == RawYield.t \in {"undefined", "null"} \/ Number(RawYield).nan
\* max(150, round(3500 * hectares)), the area given in square metres
AreaYield(m2) == Max({150, (2 * 3500 * m2 + 10000) \div (2 * 10000)})

\* C19: when the text gives no numeric summary.expected_yield_kg (missing,
\* null, not a number), and in every fallback plan, the plan's
\* expected_yield_kg is max(150, round(3500 * farmAreaHectares)).
C19_YieldDefault ==
    (HasReturned /\ YieldNotGiven)
    => /\ normalized.plan.summary.expected_yield_kg = AreaYield(context.farmAreaM2)
       /\ normalized.plan.summary.expected_yield_kg >= 150

Phases == {"soil", "planting", "water", "fertilizer", "protection", "harvest"}

\* C20: in every plan normalizeStructuredPlan returns, each step's phase is
\* one of the six phases and its priority one of low, medium, high, each
\* alert's severity one of info, warning, critical, and the risk level one
\* of low, medium, high.
C20_EnumeratedFields ==
    HasReturned
    => /\ \A i \in 1..Len(normalized.plan.steps) :
              /\ normalized.plan.steps[i].phase \in Phases
              /\ normalized.plan.steps[i].priority \in {"low", "medium", "high"}
       /\ \A i \in 1..Len(normalized.plan.alerts) :
              normalized.plan.alerts[i].severity \in {"info", "warning", "critical"}
       /\ normalized.plan.summary.risk_level \in {"low", "medium", "high"}

(***************************************************************************)
(* Properties of the round trip                                            *)
(***************************************************************************)
\* C18: the plan normalizeStructuredPlan returns, serialized with
\* JSON.stringify and normalized again, comes back with the same number of
\* steps and the same task texts, action by action, in the same order.
C18_RoundTrip ==
    nPc = "renormalized"
    => /\ ~renormalized.threw
       /\ Len(renormalized.plan.steps) = Len(normalized.plan.steps)
       /\ OutputTasks(renormalized.plan.steps) = OutputTasks(normalized.plan.steps)

\* C18 happens: a task with a quote and a backslash went through the trip
C18_Witness ==
    /\ nPc = "renormalized"
    /\ rawText = EscapedTaskText
    /\ ~renormalized.threw
    /\ renormalized.plan.steps[1].actions[1].task = "Say \"hi\" to C:\\farm now"

(***************************************************************************)
(* Properties of the plan screen                                           *)
(***************************************************************************)
\* the key of the task at 0-based position i of the displayed plan
TaskKey(i) ==
    getActionKey(walkthroughTasks[i + 1].sectionIdx, walkthroughTasks[i + 1].actionIdx)

SomeDone(done) == \E k \in DOMAIN done : done[k]

\* C11: whenever a newly generated plan replaces the displayed one, also
\* when it is identical in content to the one before, after a walkthrough
\* with some action done and the cursor past 0, the screen shows
\* completedActionCount = 0 and the cursor at 0.
C11_ResetOnRegeneration ==
    (lastOp.name = "generatePlan" /\ lastOp.idx > 0 /\ SomeDone(lastOp.done))
    => /\ completedActionCount(sections, completedActions) = 0
       /\ boundedTaskIdx = 0

WasChecked == IsChecked(lastOp.done, TaskKey(lastOp.idx))
SetsTimer == ~WasChecked /\ lastOp.idx < lastOp.total - 1

\* what a toggle and a timer leave behind, stated in C13
ToggleAndTimerSteps ==
    /\ (lastOp.name = "toggleCurrentTask" /\ lastOp.total > 0)
       => /\ IsChecked(completedActions, TaskKey(lastOp.idx)) = ~WasChecked
          /\ \A k \in (AllKeys \cup DOMAIN lastOp.done) \ {TaskKey(lastOp.idx)} :
                 IsChecked(completedActions, k) = IsChecked(lastOp.done, k)
          /\ currentTaskIdx = lastOp.raw
          /\ IF SetsTimer
             THEN /\ Len(timers) = lastOp.pending + 1
                  /\ timers[Len(timers)].nextIdx = lastOp.idx + 1
                  /\ timers[Len(timers)].totalTaskCount = lastOp.total
             ELSE Len(timers) = lastOp.pending
    /\ (lastOp.name = "timer" /\ lastOp.total = totalTaskCount)
       => /\ currentTaskIdx = lastOp.arg
          /\ completedActions = lastOp.done
          /\ Len(timers) = lastOp.pending - 1

\* C13: toggleCurrentTask flips the completion bit of the action at the
\* cursor and no other; it does not move the cursor itself; when the bit
\* went from false to true and the cursor is not at the last action it
\* sets one timer for the cursor plus one, and otherwise none; and the
\* timer, firing on a plan of as many tasks, puts the cursor there and
\* changes no bit; the timers that were set all fire.
C13_ToggleCurrent ==
    /\ []ToggleAndTimerSteps
    /\ (timers # <<>>) ~> (timers = <<>>)

\* C13 happens: a toggle set an action done, and its timer moved the cursor
\* from that action to the next
C13_Witness ==
    /\ lastOp.name = "timer"
    /\ lastOp.total = totalTaskCount
    /\ lastOp.idx = lastOp.arg - 1
    /\ IsChecked(completedActions, TaskKey(lastOp.idx))
    /\ currentTaskIdx = lastOp.idx + 1

\* C14: goToTask(index) sets the cursor to index clamped into
\* [0, totalActionCount - 1], for negative, in-range and too large indices,
\* and leaves every completion bit as it was; with no action in the plan it
\* changes nothing.
C14_GoToClamps ==
    lastOp.name = "goToTask"
    => /\ completedActions = lastOp.done
       /\ lastOp.total = totalTaskCount
       /\ IF lastOp.total = 0
          THEN currentTaskIdx = lastOp.raw
          ELSE /\ lastOp.arg < 0 => currentTaskIdx = 0
               /\ lastOp.arg > lastOp.total - 1 => currentTaskIdx = lastOp.total - 1
               /\ (0 <= lastOp.arg /\ lastOp.arg <= lastOp.total - 1)
                  => currentTaskIdx = lastOp.arg

\* C14 happens: with some action done, goToTask was given an index past the
\* last task
C14_Witness ==
    /\ lastOp.name = "goToTask"
    /\ lastOp.arg > lastOp.total
    /\ lastOp.total > 1
    /\ SomeDone(completedActions)
    /\ currentTaskIdx = lastOp.total - 1

\* C15: in every reachable state every key marked complete in
\* completedActions identifies an action of the displayed plan and was
\* marked by the user on that plan: a plan taking the place of another
\* never carries completion bits over.
C15_NoStaleKeys ==
    \A k \in CheckedKeys : k \in AllKeys /\ k \in marked

EveryActionDone(sectionIdx) ==
    \A a \in 0..(sections[sectionIdx + 1] - 1) :
        IsChecked(completedActions, getActionKey(sectionIdx, a))

AllStepsReported ==
    \A i \in 0..(Len(sections) - 1) : isSectionCompleted(sections, completedActions, i)

\* progressPercent is the rounded percentage, 0 for a plan without action
PercentIsRounded ==
    /\ 0 <= progressPercent /\ progressPercent <= 100
    /\ IF totalActionCount(sections) = 0
       THEN progressPercent = 0
       ELSE /\ 2 * (100 * completedActionCount(sections, completedActions)
                     - progressPercent * totalActionCount(sections))
                  <= totalActionCount(sections)
            /\ 2 * (progressPercent * totalActionCount(sections)
                     - 100 * completedActionCount(sections, completedActions))
                  <= totalActionCount(sections)

\* C16, as stated: for every plan and completion set progressPercent is
\* round(100 * completed / total), 0 when total is 0, within 0..100; a step
\* is reported complete iff every one of its actions is in
\* completedActions; and progressPercent is 100 exactly when every step is
\* reported complete and no next incomplete step exists.
C16_MetricsConsistent ==
    /\ PercentIsRounded
    /\ \A i \in 0..(Len(sections) - 1) :
           isSectionCompleted(sections, completedActions, i) <=> EveryActionDone(i)
    /\ (progressPercent = 100)
       <=> (AllStepsReported /\ nextIncompleteSectionIdx(sections, completedActions) = 0 - 1)

EveryStepHasAnAction ==
    /\ Len(sections) >= 1
    /\ \A i \in 1..Len(sections) : sections[i] >= 1

\* C16, amended: progressPercent is round(100 * completed / total), 0 when
\* total is 0, within 0..100; a step is reported complete iff it has an
\* action and every one of its actions is in completedActions; no next
\* incomplete step exists exactly when every step is reported complete;
\* and for a plan of at least one step whose steps all have an action (and
\* fewer than 200 actions, below which rounding reaches 100 only at
\* completed = total) progressPercent is 100 exactly when every step is
\* reported complete.
C16_MetricsOfActionableSteps ==
    /\ PercentIsRounded
    /\ \A i \in 0..(Len(sections) - 1) :
           isSectionCompleted(sections, completedActions, i)
           <=> (sections[i + 1] > 0 /\ EveryActionDone(i))
    /\ AllStepsReported <=> (nextIncompleteSectionIdx(sections, completedActions) = 0 - 1)
    /\ EveryStepHasAnAction => ((progressPercent = 100) <=> AllStepsReported)
    /\ \A total \in 1..199 : RoundPercent(total - 1, total) < 100

\* C16 happens: a plan of several steps, each with an action, all done
C16_Witness ==
    /\ Len(sections) >= 2
    /\ EveryStepHasAnAction
    /\ AllStepsReported
    /\ progressPercent = 100
    /\ nextIncompleteSectionIdx(sections, completedActions) = 0 - 1

(***************************************************************************)
(* Properties of the plan as the screen reads it                           *)
(***************************************************************************)
\* C25: for every string a successful generateFarmingPlan returns, the
\* screen's parseStructuredPlan returns a plan, not null, with as many
\* steps as the service's normalized plan and the same task texts, action
\* by action in the same order; the screen then has a task to show and its
\* "No actionable steps" text is not reached.
C25_ScreenAgreesWithService ==
    nPc = "shown"
    => /\ ~screenPlan.isNull
       /\ Len(screenPlan.plan.steps) = Len(normalized.plan.steps)
       /\ OutputTasks(screenPlan.plan.steps) = OutputTasks(normalized.plan.steps)
       /\ \E i \in 1..Len(screenPlan.plan.steps) : Len(screenPlan.plan.steps[i].actions) > 0

\* C25 happens: the screen read a fallback plan of the service, eight steps
\* of one action each
C25_Witness ==
    /\ nPc = "shown"
    /\ ~screenPlan.isNull
    /\ Len(screenPlan.plan.steps) = MaxFallbackSteps
    /\ OutputTasks(screenPlan.plan.steps) = OutputTasks(normalized.plan.steps)

(***************************************************************************)
(* Properties of the day bounds and of the fallback plan                   *)
(***************************************************************************)
\* the raw steps of the text and, in order, the positions of those kept
TextSteps == RawSteps(extractJsonObject(rawText))
KeptPositions == SortedSeq(KeptSteps(TextSteps))
FromAnswer == HasReturned /\ Len(TextSteps) >= 1 /\ KeptSteps(TextSteps) # {}

\* the field is missing, null, or no number
DayNotGiven(v) == v.t \in {"undefined", "null"} \/ Number(v).nan

\* C26: every step's start_day and end_day are non-negative integers; a
\* step whose raw start_day or end_day is missing or not numeric gets
\* start_day = 7 * i and end_day = 7 * i + 6, i being the step's position
\* in the answer from 0, so that defaulted steps next to each other get
\* contiguous 7-day windows that do not overlap.
C26_DayBounds ==
    /\ HasReturned
       => \A j \in 1..Len(normalized.plan.steps) :
              /\ normalized.plan.steps[j].start_day >= 0
              /\ normalized.plan.steps[j].end_day >= 0
    /\ FromAnswer
       => \A j \in 1..Len(KeptPositions) :
              /\ DayNotGiven(Get(TextSteps[KeptPositions[j]], "start_day"))
                 => normalized.plan.steps[j].start_day = 7 * (KeptPositions[j] - 1)
              /\ DayNotGiven(Get(TextSteps[KeptPositions[j]], "end_day"))
                 => normalized.plan.steps[j].end_day = 7 * (KeptPositions[j] - 1) + 6

\* the call returned the plan of buildFallbackPlan: nothing was extracted,
\* there is no steps array with an element, or no step has an action
InFallback == HasReturned /\ ~FromAnswer

FallbackTaskTexts ==
    [i \in 1..Len(normalized.plan.steps) |-> normalized.plan.steps[i].actions[1].task]

\* C27: whenever extraction or step validation fails, the returned plan
\* uses the line fragments extracted from the raw text iff at least 4 of
\* them qualify, and the 8 fixed default tasks otherwise; it has between 4
\* and 8 steps of exactly one action each; step i has the phase at i mod 6
\* of soil, planting, water, fertilizer, protection, harvest; and the plan
\* carries exactly one alert, of severity info.
C27_FallbackShape ==
    InFallback
    => /\ Len(normalized.plan.steps) >= 4
       /\ Len(normalized.plan.steps) <= 8
       /\ \A i \in 1..Len(normalized.plan.steps) :
              /\ Len(normalized.plan.steps[i].actions) = 1
              /\ normalized.plan.steps[i].phase =
                     <<"soil", "planting", "water", "fertilizer", "protection",
                       "harvest">>[((i - 1) % 6) + 1]
       /\ IF Len(extractedTasks(rawText)) >= 4
          THEN FallbackTaskTexts = slice(extractedTasks(rawText), 8)
          ELSE FallbackTaskTexts = defaultTasks(context.crop)
       /\ Len(normalized.plan.alerts) = 1
       /\ normalized.plan.alerts[1].severity = "info"

\* C27 happens: a text of more than 8 qualifying lines gave a fallback
\* plan of 8 steps, the seventh back at the first phase
C27_Witness ==
    /\ InFallback
    /\ Len(extractedTasks(rawText)) > 8
    /\ Len(normalized.plan.steps) = 8
    /\ normalized.plan.steps[7].phase = "soil"
    /\ FallbackTaskTexts # defaultTasks(context.crop)

(***************************************************************************)
(* Properties of a late timer on the plan screen                           *)
(***************************************************************************)
\* the timer that just ran was set on another state: the cursor is no
\* longer on the action it was set from, or the plan has another length
TimerRanLate ==
    /\ lastOp.name = "timer"
    /\ \/ lastOp.idx # lastOp.arg - 1
       \/ lastOp.total # totalTaskCount

\* C24: a delayed auto-advance set by toggleCurrentTask acts only on the
\* walkthrough it was set for: when the plan was replaced, or the user
\* moved the cursor, before the timer runs, the late timer leaves the
\* cursor where it is.
C24_LateTimerIsInert ==
    TimerRanLate => currentTaskIdx = lastOp.raw

(***************************************************************************)
(* C21.  generatePlan calls generateFarmingPlan only once the weather      *)
(* lookup has settled; a lookup that fails, or that is skipped because     *)
(* there is no farm center, still leads to the call, with the summary      *)
(* "Weather data unavailable", and opens no dialog and ends no call.       *)
(***************************************************************************)
C21_PlanAfterWeather ==
    /\ \A c \in planCalls :
          /\ c.requested <=> c.lookup # "pending"
          /\ c.requested /\ c.lookup # "ok" => c.weatherSummary = WeatherUnavailable
    /\ wizLast.name = "weatherSettled" =>
          /\ \E c \in planCalls : c.id = wizLast.arg /\ c.requested
          /\ Len(openAlerts) = wizLast.alerts
          /\ Cardinality(planCalls) = wizLast.calls

C21_Witness ==
    /\ wizLast.name = "weatherSettled"
    /\ \E c \in planCalls :
          /\ c.id = wizLast.arg /\ c.lookup = "failed"
          /\ c.requested /\ c.weatherSummary = WeatherUnavailable

(***************************************************************************)
(* C22.  When generateFarmingPlan rejects, exactly one dialog is opened    *)
(* and it carries the error's message, loading is false, aiPlan is what    *)
(* it was; pressing OK on that dialog puts the wizard on step 1.           *)
(***************************************************************************)
C22_PlanFailureHandled ==
    /\ wizLast.name = "planRejected" =>
          /\ Len(openAlerts) = wizLast.alerts + 1
          /\ openAlerts[Len(openAlerts)] = [kind |-> "failed", message |-> wizLast.arg]
          /\ ~loading
          /\ aiPlan = wizLast.aiPlan
    /\ wizLast.name = "failed" => wizardStep = 1

C22_Witness ==
    /\ wizLast.name = "planRejected"
    /\ wizLast.aiPlan \in PlanTexts
    /\ openAlerts[Len(openAlerts)].message \in PlanErrors

(***************************************************************************)
(* C23.  At most one call of generatePlan is under way at any time.        *)
(***************************************************************************)
C23_OneGenerationInFlight == Cardinality(planCalls) <= 1

(***************************************************************************)
(* C28.  On step 1, 2 or 3 the boundary has at least 3 points, and every   *)
(* call of generateFarmingPlan was made with a crop and with a boundary    *)
(* of at least 3 points.                                                   *)
(***************************************************************************)
C28_WizardGating ==
    /\ wizardStep \in 1..3 => farmBoundary >= MinBoundaryPoints
    /\ \A c \in planCalls :
          c.requested => c.crop # "" /\ c.points >= MinBoundaryPoints

RECURSIVE SumOfQuantities(_)
SumOfQuantities(S) ==
    IF S = {} THEN 0
    ELSE (CHOOSE c \in S : TRUE).quantity + SumOfQuantities(S \ {CHOOSE c \in S : TRUE})

(***************************************************************************)
(* C29.  Once every call of createUnitSale and joinUnitSale has finished,  *)
(* the sale's currentQuantity is the sum of its contributors' quantities.  *)
(***************************************************************************)
C29_QuantityIsSumOfContributors ==
    sale.status # "none" /\ joinCalls = {} =>
        sale.currentQuantity = SumOfQuantities(sale.contributors)

(***************************************************************************)
(* C30.  At most one confirmed order refers to the listing, and every      *)
(* order was made on a listing that was active when buyListing took it.    *)
(***************************************************************************)
C30_SoldAtMostOnce ==
    /\ Cardinality({o \in orders : o.status = "confirmed"}) <= 1
    /\ \A o \in orders : o.found = "active"

====
